---- MODULE Spec2Model ----
(***************************************************************************)
(* TalentFlow record service (src/src/services/database.js) over its       *)
(* Dexie/IndexedDB store.  Every DatabaseService method is an async        *)
(* function: it runs synchronously up to its first await, and every await  *)
(* on the store is one atomic request that other callers' requests may     *)
(* precede or follow.  A call is therefore a task with a program counter;  *)
(* one action per await.                                                   *)
(***************************************************************************)
EXTENDS Integers, Sequences, FiniteSets, TLC

VARIABLES db, keygen, task, pre, hist, now, ui

vars == <<db, keygen, task, pre, hist, now, ui>>

(***************************************************************************)
(* Bounds                                                                  *)
(***************************************************************************)
NTasks == 2
MaxJobId == 3
MaxCandId == 2
MaxEventId == 3
MaxOwnedId == 1
MaxCascadeJobId == 2
MaxCascadeEventId == 4
MaxApplyJobId == 1
MaxApplyCandId == 1
MaxApplications == 2
MaxApplyEventId == 3
MaxRefId == 2
MaxRefEventId == 3
MaxStatusCandId == 2
MaxStatusApps == 2
MaxReorderJobId == 3
MaxOrder == 2
MaxClock == 1
MaxListJobId == 2
MaxListOrder == 2
MaxPage == 2
MaxPageSize == 2

Tasks == 1..NTasks

(***************************************************************************)
(* Strings are sequences of one-character strings.                         *)
(***************************************************************************)
Digits == <<"0", "1", "2", "3", "4", "5", "6", "7", "8", "9">>

RECURSIVE DecStr(_)
DecStr(n) == IF n < 10 THEN <<Digits[n + 1]>>
             ELSE DecStr(n \div 10) \o <<Digits[(n % 10) + 1]>>

toLowerCase(c) == CASE c = "A" -> "a"
                    [] c = "B" -> "b"
                    [] OTHER -> c

IsSpace(c) == c \in {" ", "\t"}

IsSlugChar(c) == c \in {"a", "b", "-"} \/ c \in {Digits[i] : i \in 1..10}

RECURSIVE MapLower(_)
MapLower(s) == IF s = <<>> THEN <<>>
               ELSE <<toLowerCase(Head(s))>> \o MapLower(Tail(s))

\* .replace(/[^a-z0-9\s-]/g, '')
RECURSIVE StripSpecial(_)
StripSpecial(s) == IF s = <<>> THEN <<>>
                   ELSE IF IsSlugChar(Head(s)) \/ IsSpace(Head(s))
                        THEN <<Head(s)>> \o StripSpecial(Tail(s))
                        ELSE StripSpecial(Tail(s))

\* .replace(/\s+/g, '-')
RECURSIVE SpacesToHyphen(_)
SpacesToHyphen(s) ==
    IF s = <<>> THEN <<>>
    ELSE IF IsSpace(Head(s))
         THEN IF Tail(s) # <<>> /\ IsSpace(Head(Tail(s)))
              THEN SpacesToHyphen(Tail(s))
              ELSE <<"-">> \o SpacesToHyphen(Tail(s))
         ELSE <<Head(s)>> \o SpacesToHyphen(Tail(s))

\* .replace(/-+/g, '-')
RECURSIVE CollapseHyphens(_)
CollapseHyphens(s) ==
    IF s = <<>> THEN <<>>
    ELSE IF Head(s) = "-" /\ Tail(s) # <<>> /\ Head(Tail(s)) = "-"
         THEN CollapseHyphens(Tail(s))
         ELSE <<Head(s)>> \o CollapseHyphens(Tail(s))

\* String.prototype.trim takes no argument: .trim('-') strips white space
RECURSIVE TrimLeft(_)
TrimLeft(s) == IF s # <<>> /\ IsSpace(Head(s)) THEN TrimLeft(Tail(s)) ELSE s

RECURSIVE TrimRight(_)
TrimRight(s) == IF s # <<>> /\ IsSpace(s[Len(s)])
                THEN TrimRight(SubSeq(s, 1, Len(s) - 1)) ELSE s

trim(s) == TrimRight(TrimLeft(s))

generateSlug(title) ==
    trim(CollapseHyphens(SpacesToHyphen(StripSpecial(MapLower(title)))))

\* `${baseSlug}-${counter}`
SuffixSlug(baseSlug, counter) == baseSlug \o <<"-">> \o DecStr(counter)

(***************************************************************************)
(* The store: one set of records per table, keyed by id, and the           *)
(* auto-increment key generator of each table ('++id').                    *)
(***************************************************************************)
Tables == {"jobs", "candidates", "assessments", "timelineEvents", "notes",
           "assessmentResponses", "jobApplications"}

TalentFlowDB == [tb \in Tables |-> {}]

KeygenInit == [tb \in Tables |-> 1]

Ids(table) == {r.id : r \in table}

Get(table, id) == {r \in table : r.id = id}

\* table.put(obj): insert or replace by primary key
Put(table, rec) == {r \in table : r.id # rec.id} \cup {rec}

\* table.delete(id)
Delete(table, id) == {r \in table : r.id # id}

\* a key given explicitly moves the generator past it
BumpKey(tb, id) == IF id >= keygen[tb] THEN [keygen EXCEPT ![tb] = id + 1]
                   ELSE keygen

MinId(table) == CHOOSE i \in Ids(table) : \A j \in Ids(table) : i <= j

(***************************************************************************)
(* Tasks: the calls in flight.                                             *)
(***************************************************************************)
Stages == {"applied", "screen", "tech", "offer", "hired", "rejected"}

NoStage == "none"

\* a timestamp field the caller's object does not carry
NoTime == -1

\* types: the fields createJob(partial) fills in when the caller omits them;
\* the timestamps are left to the storage boundary
JobDefaults == [order |-> 0, status |-> "active", tags |-> {},
                description |-> <<>>,
                createdAt |-> NoTime, updatedAt |-> NoTime]

NoFilters == [status |-> "", tags |-> {}, search |-> <<>>,
              page |-> 0, pageSize |-> 0]

NoError == "none"

\* a call made from the page or the console, not from another async function
NoCaller == "none"

IdleTask == [op |-> "idle", pc |-> "idle", id |-> 0,
             title |-> <<>>, slug |-> <<>>, hasSlug |-> FALSE,
             baseSlug |-> <<>>, counter |-> 0,
             stage |-> NoStage, old |-> NoStage,
             jobId |-> 0, candidateId |-> 0, refId |-> 0, newId |-> 0,
             found |-> {},
             data |-> JobDefaults, notes |-> <<>>, error |-> NoError,
             fromOrder |-> 0, toOrder |-> 0, filters |-> NoFilters,
             result |-> <<>>,
             caller |-> NoCaller, seed |-> 0, stats |-> 0,
             before |-> NoStage, shown |-> <<>>]

Idle(t) == task[t].op = "idle"

AllIdle == \A t \in Tasks : Idle(t)

InFlight(t) == task[t].op # "idle" /\ task[t].pc \notin {"done", "failed"}

Finished(t) == task[t].pc \in {"done", "failed"}

HistInit == [created |-> [i \in {} |-> 0], staged |-> [i \in {} |-> 0],
             drags |-> 0]

Count(f, i) == IF i \in DOMAIN f THEN f[i] ELSE 0

Bump(f, i) == [j \in DOMAIN f \cup {i} |-> Count(f, j) + (IF j = i THEN 1 ELSE 0)]

\* the React state of the pages before their first load: the candidates
\* of the board and the jobs of the list
PageInit == [candidates |-> {}, jobs |-> <<>>]

Init == /\ db = TalentFlowDB
        /\ keygen = KeygenInit
        /\ task = [t \in Tasks |-> IdleTask]
        /\ pre = [t \in Tasks |-> TalentFlowDB]
        /\ hist = HistInit
        /\ now = 0
        /\ ui = PageInit

\* the caller takes the result (or the error) of a settled call
Return(t) == /\ Finished(t)
             /\ task' = [task EXCEPT ![t] = IdleTask]
             /\ pre' = [pre EXCEPT ![t] = TalentFlowDB]
             /\ UNCHANGED <<db, keygen, hist, now, ui>>

\* time passes: new Date() returns a later instant
Tick == /\ now < MaxClock
        /\ now' = now + 1
        /\ UNCHANGED <<db, keygen, task, pre, hist, ui>>

\* a request to the store rejects (quota, I/O); the method rethrows
StorageError(t) == /\ InFlight(t)
                   /\ task' = [task EXCEPT ![t].pc = "failed"]
                   /\ UNCHANGED <<db, keygen, pre, hist, now, ui>>

Begin(t, rec) == /\ Idle(t)
                 /\ task' = [task EXCEPT ![t] = rec]
                 /\ pre' = [pre EXCEPT ![t] = db]

(***************************************************************************)
(* Jobs                                                                    *)
(***************************************************************************)
\* types: a timestamp of the partial is kept, an omitted one is filled with
\* new Date() (the seed reads candidate.createdAt off a factory record)
Stamp(time) == IF time = NoTime THEN now ELSE time

\* types: createJob(partial) fills defaults and passes id through
createJobRecord(t) == [id |-> task[t].id, title |-> task[t].title,
                       slug |-> task[t].slug,
                       order |-> task[t].data.order,
                       status |-> task[t].data.status,
                       tags |-> task[t].data.tags,
                       description |-> task[t].data.description,
                       createdAt |-> Stamp(task[t].data.createdAt),
                       updatedAt |-> Stamp(task[t].data.updatedAt)]

\* jobs.hook('creating'): obj.createdAt = obj.updatedAt = new Date()
jobs_hook_creating(obj) == [obj EXCEPT !.createdAt = now, !.updatedAt = now]

\* jobs.hook('updating') assigns modifications.updatedAt in place and
\* returns nothing; whether the store applies an in-place change of the
\* modifications object is up to the Dexie build, so both outcomes are kept
jobs_hook_updating(obj) == {obj, [obj EXCEPT !.updatedAt = now]}

FirstBySlug(slug) == LET m == {j \in db.jobs : j.slug = slug}
                     IN  IF m = {} THEN {} ELSE Get(m, MinId(m))

\* slip: the probe does not exempt the job being updated
isSlugUnique_noExclude(slug, excludeId) == FirstBySlug(slug) = {}

isSlugUnique(slug, excludeId) ==
    LET existingJob == FirstBySlug(slug)
    IN  existingJob = {} \/ (\A j \in existingJob : j.id = excludeId)

\* createJob up to its first await; id = 0: no id supplied; data: the
\* other fields of jobData
createJob(t, id, title, slug, data) ==
    LET s == IF slug = <<>> /\ title # <<>> THEN generateSlug(title) ELSE slug
    IN  /\ Begin(t, [IdleTask EXCEPT !.op = "createJob",
                        !.pc = IF s # <<>> THEN "probe" ELSE "write",
                        !.id = id, !.title = title, !.slug = s,
                        !.baseSlug = s, !.counter = 1, !.data = data])
        /\ UNCHANGED <<db, keygen, hist, now, ui>>

\* while (!(await this.isSlugUnique(slug, excludeId))) { slug = base-counter }
ProbeSlug(t, excludeId) ==
    /\ task[t].pc = "probe"
    /\ IF isSlugUnique(task[t].slug, excludeId)
       THEN task' = [task EXCEPT ![t].pc = "write"]
       ELSE task' = [task EXCEPT
                       ![t].slug = SuffixSlug(task[t].baseSlug, task[t].counter),
                       ![t].counter = task[t].counter + 1]
    /\ UNCHANGED <<db, keygen, pre, hist, now, ui>>

createJob_isSlugUnique(t) == /\ task[t].op = "createJob"
                             /\ ProbeSlug(t, 0)

\* job.id ? db.jobs.put(job) : db.jobs.add(job)
createJob_put(t) ==
    /\ task[t].op = "createJob"
    /\ task[t].pc = "write"
    /\ LET job == createJobRecord(t)
           id == IF job.id # 0 THEN job.id ELSE keygen.jobs
           obj == [job EXCEPT !.id = id]
       IN  /\ \E stored \in (IF id \in Ids(db.jobs) THEN jobs_hook_updating(obj)
                              ELSE {jobs_hook_creating(obj)}) :
                  db' = [db EXCEPT !.jobs = Put(db.jobs, stored)]
           /\ keygen' = BumpKey("jobs", id)
           /\ task' = [task EXCEPT ![t].pc = "done", ![t].newId = id]
    /\ UNCHANGED <<pre, hist, now, ui>>

\* updateJob up to its first await; hasTitle/hasSlug: keys present in updates
updateJob(t, id, title, slug) ==
    LET derive == title # <<>> /\ slug = <<>>
        s == IF derive THEN generateSlug(title) ELSE slug
    IN  /\ Begin(t, [IdleTask EXCEPT !.op = "updateJob",
                        !.pc = IF s # <<>> THEN "probe" ELSE "write",
                        !.id = id, !.title = title, !.slug = s,
                        !.hasSlug = (derive \/ slug # <<>>),
                        !.baseSlug = s, !.counter = 1])
        /\ UNCHANGED <<db, keygen, hist, now, ui>>

\* updateJob(id, {createdAt, updatedAt}): a patch with neither title nor
\* slug goes straight to db.jobs.update
updateJob_timestamps(t, id, createdAt, updatedAt) ==
    /\ Begin(t, [IdleTask EXCEPT !.op = "updateJob", !.pc = "write", !.id = id,
                    !.data = [JobDefaults EXCEPT !.createdAt = createdAt,
                                                 !.updatedAt = updatedAt]])
    /\ UNCHANGED <<db, keygen, hist, now, ui>>

updateJob_isSlugUnique(t) == /\ task[t].op = "updateJob"
                             /\ ProbeSlug(t, task[t].id)

\* db.jobs.update(id, updates): patches the record when it exists
updateJob_update(t) ==
    /\ task[t].op = "updateJob"
    /\ task[t].pc = "write"
    /\ LET patched(j) == [j EXCEPT !.title = IF task[t].title # <<>>
                                              THEN task[t].title ELSE @,
                                    !.slug = IF task[t].hasSlug
                                             THEN task[t].slug ELSE @,
                                    !.createdAt =
                                        IF task[t].data.createdAt # NoTime
                                        THEN task[t].data.createdAt ELSE @,
                                    !.updatedAt =
                                        IF task[t].data.updatedAt # NoTime
                                        THEN task[t].data.updatedAt ELSE @]
       IN  IF task[t].id \in Ids(db.jobs)
           THEN \E j \in Get(db.jobs, task[t].id) :
                    \E stored \in jobs_hook_updating(patched(j)) :
                        db' = [db EXCEPT !.jobs = Put(db.jobs, stored)]
           ELSE db' = db
    /\ task' = [task EXCEPT ![t].pc = "get"]
    /\ UNCHANGED <<keygen, pre, hist, now, ui>>

\* return await db.jobs.get(id)
updateJob_get(t) ==
    /\ task[t].op = "updateJob"
    /\ task[t].pc = "get"
    /\ task' = [task EXCEPT ![t].pc = "done",
                            ![t].found = Get(db.jobs, task[t].id)]
    /\ UNCHANGED <<db, keygen, pre, hist, now, ui>>

deleteJob(t, id) ==
    /\ Begin(t, [IdleTask EXCEPT !.op = "deleteJob", !.pc = "jobs", !.id = id])
    /\ UNCHANGED <<db, keygen, hist, now, ui>>

\* await db.jobs.delete(id)
deleteJob_jobs(t) ==
    /\ task[t].op = "deleteJob"
    /\ task[t].pc = "jobs"
    /\ db' = [db EXCEPT !.jobs = Delete(db.jobs, task[t].id)]
    /\ task' = [task EXCEPT ![t].pc = "candidates"]
    /\ UNCHANGED <<keygen, pre, hist, now, ui>>

\* slip: the cascade selects candidates by their own id
deleteJob_candidates_byId(t) ==
    /\ task[t].op = "deleteJob"
    /\ task[t].pc = "candidates"
    /\ db' = [db EXCEPT !.candidates = {c \in @ : c.id # task[t].id}]
    /\ task' = [task EXCEPT ![t].pc = "assessments"]
    /\ UNCHANGED <<keygen, pre, hist, now, ui>>

\* await db.candidates.where('jobId').equals(id).delete()
deleteJob_candidates(t) ==
    /\ task[t].op = "deleteJob"
    /\ task[t].pc = "candidates"
    /\ db' = [db EXCEPT !.candidates = {c \in @ : c.jobId # task[t].id}]
    /\ task' = [task EXCEPT ![t].pc = "assessments"]
    /\ UNCHANGED <<keygen, pre, hist, now, ui>>

\* await db.assessments.where('jobId').equals(id).delete()
deleteJob_assessments(t) ==
    /\ task[t].op = "deleteJob"
    /\ task[t].pc = "assessments"
    /\ db' = [db EXCEPT !.assessments = {a \in @ : a.jobId # task[t].id}]
    /\ task' = [task EXCEPT ![t].pc = "done"]
    /\ UNCHANGED <<keygen, pre, hist, now, ui>>

\* the first job of a set in the sequence of the order index: by order,
\* then by primary key
FirstByOrder(jobs) ==
    CHOOSE j \in jobs :
        \A k \in jobs : j.order < k.order \/ (j.order = k.order /\ j.id <= k.id)

\* db.jobs.orderBy('order').toArray()
RECURSIVE ByOrder(_)
ByOrder(jobs) == IF jobs = {} THEN <<>>
                 ELSE <<FirstByOrder(jobs)>> \o ByOrder(jobs \ {FirstByOrder(jobs)})

\* slip: the last job holding the order is taken
FindByOrder_last(jobs, order) ==
    LET m == {j \in jobs : j.order = order}
    IN  IF m = {} THEN {} ELSE {CHOOSE j \in m : \A k \in m : k.id <= j.id}

\* slip: with no match the first job of the table is taken
FindByOrder_orFirst(jobs, order) ==
    LET m == {j \in jobs : j.order = order}
    IN  IF m = {} THEN (IF jobs = {} THEN {} ELSE {FirstByOrder(jobs)})
        ELSE {FirstByOrder(m)}

\* jobs.find(job => job.order === order): the first match, if any
FindByOrder(jobs, order) ==
    LET m == {j \in jobs : j.order = order}
    IN  IF m = {} THEN {} ELSE {FirstByOrder(m)}

reorderJobs(t, fromOrder, toOrder) ==
    /\ Begin(t, [IdleTask EXCEPT !.op = "reorderJobs", !.pc = "transaction",
                    !.fromOrder = fromOrder, !.toOrder = toOrder])
    /\ UNCHANGED <<db, keygen, hist, now, ui>>

\* db.jobs.update(id, {order}) with the updating hook; the tables reached
UpdateOrder(jobs, id, order) ==
    {Put(jobs, stored) :
        stored \in UNION {jobs_hook_updating([j EXCEPT !.order = order]) :
                            j \in Get(jobs, id)}}

\* if (fromJob && toJob)
BothFound(fromJob, toJob) == fromJob # {} /\ toJob # {}

\* the body of db.transaction('rw', db.jobs, ...): the transaction holds the
\* jobs table, so its requests are served with no other request in between
reorderJobs_transaction(t) ==
    /\ task[t].op = "reorderJobs"
    /\ task[t].pc = "transaction"
    /\ LET fromJob == FindByOrder(db.jobs, task[t].fromOrder)
           toJob == FindByOrder(db.jobs, task[t].toOrder)
       IN  IF BothFound(fromJob, toJob)
           THEN \E first \in UNION {UpdateOrder(db.jobs, j.id, task[t].toOrder) :
                                       j \in fromJob} :
                  \E second \in UNION {UpdateOrder(first, j.id, task[t].fromOrder) :
                                          j \in toJob} :
                      /\ db' = [db EXCEPT !.jobs = second]
                      /\ task' = [task EXCEPT ![t].pc = "done",
                                              ![t].result = ByOrder(second)]
           ELSE /\ db' = db
                /\ task' = [task EXCEPT ![t].pc = "done",
                                        ![t].result = ByOrder(db.jobs)]
    /\ UNCHANGED <<keygen, pre, hist, now, ui>>

\* String.prototype.includes
includes(str, searchString) ==
    \E i \in 0..(Len(str) - Len(searchString)) :
        SubSeq(str, i + 1, i + Len(searchString)) = searchString

\* job.status === filters.status
MatchesStatus(job, filters) == job.status = filters.status

\* slip: every filter tag is required
MatchesTags_every(job, filters) == \A tag \in filters.tags : tag \in job.tags

\* filters.tags.some(tag => job.tags.includes(tag))
MatchesTags(job, filters) == \E tag \in filters.tags : tag \in job.tags

\* title, description or a tag, lower-cased, includes the lower-cased term
MatchesSearch(job, filters) ==
    LET searchTerm == MapLower(filters.search)
    IN  \/ includes(MapLower(job.title), searchTerm)
        \/ includes(MapLower(job.description), searchTerm)
        \/ \E tag \in job.tags : includes(MapLower(tag), searchTerm)

\* the chain of query.filter(...) calls over db.jobs.orderBy('order')
FilteredJobs(jobs, filters) ==
    LET Keep(job) ==
            /\ filters.status # "" => MatchesStatus(job, filters)
            /\ filters.tags # {} => MatchesTags(job, filters)
            /\ filters.search # <<>> => MatchesSearch(job, filters)
    IN  SelectSeq(ByOrder(jobs), Keep)

\* Array.prototype.slice(start, end)
slice(arr, start, end) ==
    SubSeq(arr, start + 1, IF end < Len(arr) THEN end ELSE Len(arr))

\* slip: the offset is taken from the page number as it is
Offset_fromPage(page, pageSize) == page * pageSize

\* const offset = (filters.page - 1) * filters.pageSize
Offset(page, pageSize) == (page - 1) * pageSize

\* Math.ceil(total / pageSize)
Ceil(total, pageSize) == (total + pageSize - 1) \div pageSize

\* if (filters.page && filters.pageSize)
Paginated(filters) == filters.page # 0 /\ filters.pageSize # 0

Paginate(jobs, page, pageSize) ==
    LET offset == Offset(page, pageSize)
        total == Len(jobs)
    IN  [data |-> slice(jobs, offset, offset + pageSize),
         pagination |-> [page |-> page, pageSize |-> pageSize, total |-> total,
                         totalPages |-> Ceil(total, pageSize),
                         hasMore |-> offset + pageSize < total]]

getJobs(t, filters) ==
    /\ Begin(t, [IdleTask EXCEPT !.op = "getJobs", !.pc = "toArray",
                    !.filters = filters])
    /\ UNCHANGED <<db, keygen, hist, now, ui>>

\* await query.toArray(), then the page object or the array is returned
getJobs_toArray(t) ==
    /\ task[t].op = "getJobs"
    /\ task[t].pc = "toArray"
    /\ LET filters == task[t].filters
           jobs == FilteredJobs(db.jobs, filters)
       IN  task' = [task EXCEPT ![t].pc = "done",
                       ![t].result = IF Paginated(filters)
                                     THEN Paginate(jobs, filters.page,
                                                   filters.pageSize)
                                     ELSE jobs]
    /\ UNCHANGED <<db, keygen, pre, hist, now, ui>>

(***************************************************************************)
(* Timeline events                                                         *)
(***************************************************************************)
\* types: createTimelineEvent(partial)
createTimelineEventRecord(candidateId, type, title, fromStage, toStage, refId) ==
    [id |-> 0, candidateId |-> candidateId, type |-> type, title |-> title,
     fromStage |-> fromStage, toStage |-> toStage, refId |-> refId]

\* createTimelineEvent: const id = await db.timelineEvents.add(event)
AddTimelineEvent(d, event) ==
    [d EXCEPT !.timelineEvents =
        @ \cup {[event EXCEPT !.id = keygen.timelineEvents]}]

createTimelineEvent(t, event, nextPc) ==
    /\ db' = AddTimelineEvent(db, event)
    /\ keygen' = [keygen EXCEPT !.timelineEvents = @ + 1]
    /\ task' = [task EXCEPT ![t].pc = nextPc]

(***************************************************************************)
(* Candidates                                                              *)
(***************************************************************************)
\* types: createCandidate(partial): stage defaults to 'applied'
createCandidateRecord(t) ==
    [id |-> task[t].id,
     stage |-> IF task[t].stage = NoStage THEN "applied" ELSE task[t].stage,
     jobId |-> task[t].jobId]

createCandidate(t, id, stage, jobId) ==
    /\ Begin(t, [IdleTask EXCEPT !.op = "createCandidate", !.pc = "write",
                    !.id = id, !.stage = stage, !.jobId = jobId])
    /\ UNCHANGED <<db, keygen, hist, now, ui>>

\* candidate.id ? db.candidates.put(candidate) : db.candidates.add(candidate)
createCandidate_put(t) ==
    /\ task[t].op = "createCandidate"
    /\ task[t].pc = "write"
    /\ LET candidate == createCandidateRecord(t)
           id == IF candidate.id # 0 THEN candidate.id ELSE keygen.candidates
       IN  /\ db' = [db EXCEPT !.candidates =
                        Put(@, [candidate EXCEPT !.id = id])]
           /\ keygen' = BumpKey("candidates", id)
           /\ task' = [task EXCEPT ![t].pc = "event", ![t].newId = id]
           /\ hist' = [hist EXCEPT !.created = Bump(@, id)]
    /\ UNCHANGED <<pre, now, ui>>

\* await this.createTimelineEvent({type: 'stage_change', title: 'Application Submitted'})
createCandidate_createTimelineEvent(t) ==
    /\ task[t].op = "createCandidate"
    /\ task[t].pc = "event"
    /\ createTimelineEvent(t,
          createTimelineEventRecord(task[t].newId, "stage_change",
              "Application Submitted", NoStage, NoStage, 0), "done")
    /\ UNCHANGED <<pre, hist, now, ui>>

\* slip: the comparison with the stored stage is dropped
StageChanged_anyStage(stage, oldStage) == stage # NoStage

\* updates.stage && updates.stage !== oldCandidate?.stage
StageChanged(stage, oldStage) == stage # NoStage /\ stage # oldStage

StoredStage(d, id) == IF \E c \in d.candidates : c.id = id
                      THEN (CHOOSE c \in d.candidates : c.id = id).stage
                      ELSE NoStage

\* updates = {stage} or a patch without stage (NoStage)
updateCandidate(t, id, stage) ==
    /\ Begin(t, [IdleTask EXCEPT !.op = "updateCandidate", !.pc = "get",
                    !.id = id, !.stage = stage])
    /\ hist' = IF stage # NoStage /\ stage # StoredStage(db, id)
               THEN [hist EXCEPT !.staged = Bump(@, id)]
               ELSE hist
    /\ UNCHANGED <<db, keygen, now, ui>>

\* const oldCandidate = await db.candidates.get(id)
updateCandidate_get(t) ==
    /\ task[t].op = "updateCandidate"
    /\ task[t].pc = "get"
    /\ task' = [task EXCEPT ![t].pc = "update",
                            ![t].old = StoredStage(db, task[t].id)]
    /\ UNCHANGED <<db, keygen, pre, hist, now, ui>>

\* await db.candidates.update(id, updates)
updateCandidate_update(t) ==
    /\ task[t].op = "updateCandidate"
    /\ task[t].pc = "update"
    /\ db' = [db EXCEPT !.candidates =
                {IF c.id = task[t].id /\ task[t].stage # NoStage
                 THEN [c EXCEPT !.stage = task[t].stage] ELSE c : c \in @}]
    /\ task' = [task EXCEPT ![t].pc =
                   IF StageChanged(task[t].stage, task[t].old)
                   THEN "event" ELSE "reget"]
    /\ UNCHANGED <<keygen, pre, hist, now, ui>>

\* slip: fromStage is taken from the patch instead of the record read before
updateCandidate_createTimelineEvent_fromPatch(t) ==
    /\ task[t].op = "updateCandidate"
    /\ task[t].pc = "event"
    /\ createTimelineEvent(t,
          createTimelineEventRecord(task[t].id, "stage_change",
              "Stage Changed", task[t].stage, task[t].stage, 0), "reget")
    /\ UNCHANGED <<pre, hist, now, ui>>

\* await this.createTimelineEvent({type: 'stage_change', metadata: {fromStage, toStage}})
updateCandidate_createTimelineEvent(t) ==
    /\ task[t].op = "updateCandidate"
    /\ task[t].pc = "event"
    /\ createTimelineEvent(t,
          createTimelineEventRecord(task[t].id, "stage_change",
              "Stage Changed", task[t].old, task[t].stage, 0), "reget")
    /\ UNCHANGED <<pre, hist, now, ui>>

\* return await db.candidates.get(id)
updateCandidate_reget(t) ==
    /\ task[t].op = "updateCandidate"
    /\ task[t].pc = "reget"
    /\ task' = [task EXCEPT ![t].pc = "done",
                            ![t].found = Get(db.candidates, task[t].id)]
    /\ UNCHANGED <<db, keygen, pre, hist, now, ui>>

deleteCandidate(t, id) ==
    /\ Begin(t, [IdleTask EXCEPT !.op = "deleteCandidate",
                    !.pc = "candidates", !.id = id])
    /\ UNCHANGED <<db, keygen, hist, now, ui>>

\* await db.candidates.delete(id)
deleteCandidate_candidates(t) ==
    /\ task[t].op = "deleteCandidate"
    /\ task[t].pc = "candidates"
    /\ db' = [db EXCEPT !.candidates = Delete(@, task[t].id)]
    /\ task' = [task EXCEPT ![t].pc = "timelineEvents"]
    /\ UNCHANGED <<keygen, pre, hist, now, ui>>

\* await db.timelineEvents.where('candidateId').equals(id).delete()
deleteCandidate_timelineEvents(t) ==
    /\ task[t].op = "deleteCandidate"
    /\ task[t].pc = "timelineEvents"
    /\ db' = [db EXCEPT !.timelineEvents =
                {e \in @ : e.candidateId # task[t].id}]
    /\ task' = [task EXCEPT ![t].pc = "notes"]
    /\ UNCHANGED <<keygen, pre, hist, now, ui>>

\* slip: the cascade selects notes by their own id
deleteCandidate_notes_byId(t) ==
    /\ task[t].op = "deleteCandidate"
    /\ task[t].pc = "notes"
    /\ db' = [db EXCEPT !.notes = {n \in @ : n.id # task[t].id}]
    /\ task' = [task EXCEPT ![t].pc = "assessmentResponses"]
    /\ UNCHANGED <<keygen, pre, hist, now, ui>>

\* await db.notes.where('candidateId').equals(id).delete()
deleteCandidate_notes(t) ==
    /\ task[t].op = "deleteCandidate"
    /\ task[t].pc = "notes"
    /\ db' = [db EXCEPT !.notes = {n \in @ : n.candidateId # task[t].id}]
    /\ task' = [task EXCEPT ![t].pc = "assessmentResponses"]
    /\ UNCHANGED <<keygen, pre, hist, now, ui>>

\* await db.assessmentResponses.where('candidateId').equals(id).delete()
deleteCandidate_assessmentResponses(t) ==
    /\ task[t].op = "deleteCandidate"
    /\ task[t].pc = "assessmentResponses"
    /\ db' = [db EXCEPT !.assessmentResponses =
                {r \in @ : r.candidateId # task[t].id}]
    /\ task' = [task EXCEPT ![t].pc = "done"]
    /\ UNCHANGED <<keygen, pre, hist, now, ui>>

(***************************************************************************)
(* Notes, assessments, responses, applications                             *)
(***************************************************************************)
createNote(t, candidateId) ==
    /\ Begin(t, [IdleTask EXCEPT !.op = "createNote", !.pc = "add",
                    !.candidateId = candidateId])
    /\ UNCHANGED <<db, keygen, hist, now, ui>>

\* const id = await db.notes.add(note)
createNote_add(t) ==
    /\ task[t].op = "createNote"
    /\ task[t].pc = "add"
    /\ db' = [db EXCEPT !.notes = @ \cup
                {[id |-> keygen.notes, candidateId |-> task[t].candidateId]}]
    /\ keygen' = [keygen EXCEPT !.notes = @ + 1]
    /\ task' = [task EXCEPT ![t].pc = "event", ![t].newId = keygen.notes]
    /\ UNCHANGED <<pre, hist, now, ui>>

createNote_createTimelineEvent(t) ==
    /\ task[t].op = "createNote"
    /\ task[t].pc = "event"
    /\ createTimelineEvent(t,
          createTimelineEventRecord(task[t].candidateId, "note_added",
              "Note Added", NoStage, NoStage, task[t].newId), "done")
    /\ UNCHANGED <<pre, hist, now, ui>>

createAssessment(t, jobId) ==
    /\ Begin(t, [IdleTask EXCEPT !.op = "createAssessment", !.pc = "write",
                    !.jobId = jobId])
    /\ UNCHANGED <<db, keygen, hist, now, ui>>

\* id = await db.assessments.add(assessment)
createAssessment_add(t) ==
    /\ task[t].op = "createAssessment"
    /\ task[t].pc = "write"
    /\ db' = [db EXCEPT !.assessments = @ \cup
                {[id |-> keygen.assessments, jobId |-> task[t].jobId]}]
    /\ keygen' = [keygen EXCEPT !.assessments = @ + 1]
    /\ task' = [task EXCEPT ![t].pc = "done", ![t].newId = keygen.assessments]
    /\ UNCHANGED <<pre, hist, now, ui>>

createAssessmentResponse(t, candidateId, assessmentId) ==
    /\ Begin(t, [IdleTask EXCEPT !.op = "createAssessmentResponse",
                    !.pc = "add", !.candidateId = candidateId,
                    !.refId = assessmentId])
    /\ UNCHANGED <<db, keygen, hist, now, ui>>

\* const id = await db.assessmentResponses.add(response)
createAssessmentResponse_add(t) ==
    /\ task[t].op = "createAssessmentResponse"
    /\ task[t].pc = "add"
    /\ db' = [db EXCEPT !.assessmentResponses = @ \cup
                {[id |-> keygen.assessmentResponses,
                  candidateId |-> task[t].candidateId,
                  assessmentId |-> task[t].refId]}]
    /\ keygen' = [keygen EXCEPT !.assessmentResponses = @ + 1]
    /\ task' = [task EXCEPT ![t].pc = "event",
                            ![t].newId = keygen.assessmentResponses]
    /\ UNCHANGED <<pre, hist, now, ui>>

createAssessmentResponse_createTimelineEvent(t) ==
    /\ task[t].op = "createAssessmentResponse"
    /\ task[t].pc = "event"
    /\ createTimelineEvent(t,
          createTimelineEventRecord(task[t].candidateId, "assessment_completed",
              "Assessment Completed", NoStage, NoStage, task[t].newId), "done")
    /\ UNCHANGED <<pre, hist, now, ui>>

createJobApplication(t, candidateId, jobId, status) ==
    /\ Begin(t, [IdleTask EXCEPT !.op = "createJobApplication", !.pc = "add",
                    !.candidateId = candidateId, !.jobId = jobId,
                    !.stage = status])
    /\ UNCHANGED <<db, keygen, hist, now, ui>>

\* the methods that run the body of createJobApplication
RunsCreateJobApplication(t) ==
    task[t].op \in {"createJobApplication", "applyCandidateToJob"}

\* const id = await db.jobApplications.add(application)
createJobApplication_add(t) ==
    /\ RunsCreateJobApplication(t)
    /\ task[t].pc = "add"
    /\ db' = [db EXCEPT !.jobApplications = @ \cup
                {[id |-> keygen.jobApplications,
                  candidateId |-> task[t].candidateId,
                  jobId |-> task[t].jobId, status |-> task[t].stage,
                  jobTitle |-> task[t].title, notes |-> task[t].notes]}]
    /\ keygen' = [keygen EXCEPT !.jobApplications = @ + 1]
    /\ task' = [task EXCEPT ![t].pc = "event",
                            ![t].newId = keygen.jobApplications]
    /\ UNCHANGED <<pre, hist, now, ui>>

createJobApplication_createTimelineEvent(t) ==
    /\ RunsCreateJobApplication(t)
    /\ task[t].pc = "event"
    /\ createTimelineEvent(t,
          createTimelineEventRecord(task[t].candidateId, "job_application",
              "Applied for", NoStage, NoStage, task[t].newId), "done")
    /\ UNCHANGED <<pre, hist, now, ui>>

\* a call throws: the catch block logs and rethrows to the caller
Throw(t, error) == task' = [task EXCEPT ![t].pc = "failed", ![t].error = error]

\* version(1).stores: the indexed key paths of each table besides ++id
Indexes ==
    [jobs |-> {"title", "slug", "status", "order", "createdAt", "updatedAt"},
     candidates |-> {"name", "email", "stage", "jobId", "createdAt", "updatedAt"},
     assessments |-> {"jobId", "title", "createdAt", "updatedAt"},
     timelineEvents |-> {"candidateId", "type", "createdAt"},
     notes |-> {"candidateId", "createdAt", "updatedAt"},
     assessmentResponses |-> {"candidateId", "assessmentId", "createdAt"},
     jobApplications |-> {"candidateId", "jobId", "status", "appliedAt",
                          "updatedAt"}]

\* table.where(keyPath) is served by an index of the table; a query on a
\* key path that is not indexed rejects with a SchemaError
IsIndexed(tb, keyPath) == keyPath \in Indexes[tb]

applyCandidateToJob(t, candidateId, jobId) ==
    /\ Begin(t, [IdleTask EXCEPT !.op = "applyCandidateToJob", !.pc = "job",
                    !.candidateId = candidateId, !.jobId = jobId,
                    !.stage = "applied"])
    /\ UNCHANGED <<db, keygen, hist, now, ui>>

\* slip: a job that does not resolve is not reported
JobMissing_never(job) == FALSE

\* if (!job)
JobMissing(job) == job = {}

\* const job = await db.jobs.get(jobId); if (!job) throw new Error('Job not found')
applyCandidateToJob_get(t) ==
    /\ task[t].op = "applyCandidateToJob"
    /\ task[t].pc = "job"
    /\ LET job == Get(db.jobs, task[t].jobId)
       IN  IF JobMissing(job)
           THEN Throw(t, "Job not found")
           ELSE task' = [task EXCEPT ![t].pc = "existing", ![t].found = job,
                            ![t].title = IF job = {} THEN <<>>
                                         ELSE (CHOOSE j \in job : TRUE).title]
    /\ UNCHANGED <<db, keygen, pre, hist, now, ui>>

\* await db.jobApplications.where('[candidateId+jobId]')
\*     .equals([candidateId, jobId]).first()
applyCandidateToJob_first(t) ==
    /\ task[t].op = "applyCandidateToJob"
    /\ task[t].pc = "existing"
    /\ IF ~IsIndexed("jobApplications", "[candidateId+jobId]")
       THEN Throw(t, "SchemaError")
       ELSE IF \E a \in db.jobApplications :
                  a.candidateId = task[t].candidateId /\ a.jobId = task[t].jobId
            THEN Throw(t, "Candidate has already applied to this job")
            ELSE task' = [task EXCEPT ![t].pc = "add"]
    /\ UNCHANGED <<db, keygen, pre, hist, now, ui>>

updateJobApplicationStatus(t, applicationId, newStatus, notes) ==
    /\ Begin(t, [IdleTask EXCEPT !.op = "updateJobApplicationStatus",
                    !.pc = "get", !.id = applicationId, !.stage = newStatus,
                    !.notes = notes])
    /\ UNCHANGED <<db, keygen, hist, now, ui>>

\* const application = await db.jobApplications.get(applicationId);
\* if (!application) throw new Error('Application not found')
updateJobApplicationStatus_get(t) ==
    /\ task[t].op = "updateJobApplicationStatus"
    /\ task[t].pc = "get"
    /\ LET application == Get(db.jobApplications, task[t].id)
       IN  IF application = {}
           THEN Throw(t, "Application not found")
           ELSE task' = [task EXCEPT ![t].pc = "update",
                                     ![t].found = application]
    /\ UNCHANGED <<db, keygen, pre, hist, now, ui>>

\* updateJobApplication: await db.jobApplications.update(id,
\*     {status: newStatus, notes: notes || application.notes, updatedAt})
updateJobApplication_update(t) ==
    /\ task[t].op = "updateJobApplicationStatus"
    /\ task[t].pc = "update"
    /\ db' = [db EXCEPT !.jobApplications =
                {IF a.id = task[t].id
                 THEN [a EXCEPT !.status = task[t].stage,
                                !.notes = IF task[t].notes # <<>>
                                          THEN task[t].notes
                                          ELSE (CHOOSE o \in task[t].found : TRUE).notes]
                 ELSE a : a \in @}]
    /\ task' = [task EXCEPT ![t].pc = "updated"]
    /\ UNCHANGED <<keygen, pre, hist, now, ui>>

\* updateJobApplication: return await db.jobApplications.get(id)
updateJobApplication_get(t) ==
    /\ task[t].op = "updateJobApplicationStatus"
    /\ task[t].pc = "updated"
    /\ task' = [task EXCEPT ![t].pc = "event"]
    /\ UNCHANGED <<db, keygen, pre, hist, now, ui>>

\* await this.createTimelineEvent({candidateId: application.candidateId,
\*     type: 'status_change', metadata: {oldStatus, newStatus, notes}})
updateJobApplicationStatus_createTimelineEvent(t) ==
    /\ task[t].op = "updateJobApplicationStatus"
    /\ task[t].pc = "event"
    /\ LET application == CHOOSE o \in task[t].found : TRUE
       IN  createTimelineEvent(t,
              createTimelineEventRecord(application.candidateId,
                  "status_change", "Status changed to", NoStage, NoStage,
                  task[t].id)
              @@ [oldStatus |-> application.status,
                  newStatus |-> task[t].stage, notes |-> task[t].notes],
              "reget")
    /\ UNCHANGED <<pre, hist, now, ui>>

\* return await db.jobApplications.get(applicationId)
updateJobApplicationStatus_reget(t) ==
    /\ task[t].op = "updateJobApplicationStatus"
    /\ task[t].pc = "reget"
    /\ task' = [task EXCEPT ![t].pc = "done",
                            ![t].result = Get(db.jobApplications, task[t].id)]
    /\ UNCHANGED <<db, keygen, pre, hist, now, ui>>

(***************************************************************************)
(* Reads                                                                   *)
(***************************************************************************)
getJobById(t, id) ==
    /\ Begin(t, [IdleTask EXCEPT !.op = "getJobById", !.pc = "read", !.id = id])
    /\ UNCHANGED <<db, keygen, hist, now, ui>>

\* return await db.jobs.get(id)
getJobById_get(t) ==
    /\ task[t].op = "getJobById"
    /\ task[t].pc = "read"
    /\ task' = [task EXCEPT ![t].pc = "done",
                            ![t].found = Get(db.jobs, task[t].id)]
    /\ UNCHANGED <<db, keygen, pre, hist, now, ui>>

\* getCandidates({jobId})
getCandidates(t, jobId) ==
    /\ Begin(t, [IdleTask EXCEPT !.op = "getCandidates", !.pc = "read",
                    !.jobId = jobId])
    /\ UNCHANGED <<db, keygen, hist, now, ui>>

\* return await query.reverse().toArray()
getCandidates_toArray(t) ==
    /\ task[t].op = "getCandidates"
    /\ task[t].pc = "read"
    /\ task' = [task EXCEPT ![t].pc = "done",
                   ![t].found = {c \in db.candidates : c.jobId = task[t].jobId}]
    /\ UNCHANGED <<db, keygen, pre, hist, now, ui>>

\* the records of a table in primary-key order, as toArray() returns them
RECURSIVE ById(_)
ById(table) == IF table = {} THEN <<>>
               ELSE LET r == CHOOSE x \in table : x.id = MinId(table)
                    IN  <<r>> \o ById(table \ {r})

\* slip: an application with an offer is not counted as in interview
IsInterviewScheduled_noOffer(app) == app.status = "screen" \/ app.status = "tech"

\* app.status === 'screen' || app.status === 'tech' || app.status === 'offer'
IsInterviewScheduled(app) ==
    app.status = "screen" \/ app.status = "tech" \/ app.status = "offer"

IsHired(app) == app.status = "hired"

IsRejected(app) == app.status = "rejected"

IsApplied(app) == app.status = "applied"

\* applications.filter(...) keeps the array order
statusSummary(applications) ==
    [totalApplications |-> Len(applications),
     hired |-> SelectSeq(applications, IsHired),
     rejected |-> SelectSeq(applications, IsRejected),
     interviewScheduled |-> SelectSeq(applications, IsInterviewScheduled),
     applied |-> SelectSeq(applications, IsApplied)]

getCandidateJobStatus(t, candidateId) ==
    /\ Begin(t, [IdleTask EXCEPT !.op = "getCandidateJobStatus",
                    !.pc = "applications", !.candidateId = candidateId])
    /\ UNCHANGED <<db, keygen, hist, now, ui>>

\* getCandidateJobApplications:
\* await db.jobApplications.where('candidateId').equals(candidateId).toArray()
getCandidateJobApplications_toArray(t) ==
    /\ task[t].op = "getCandidateJobStatus"
    /\ task[t].pc = "applications"
    /\ task' = [task EXCEPT ![t].pc = "jobs",
                   ![t].result = ById({a \in db.jobApplications :
                                         a.candidateId = task[t].candidateId})]
    /\ UNCHANGED <<db, keygen, pre, hist, now, ui>>

\* {...app, jobTitle: job?.title || app.jobTitle, jobDetails: job}
WithJob(app) ==
    LET job == Get(db.jobs, app.jobId)
    IN  [app EXCEPT !.jobTitle = IF job # {} /\ (CHOOSE j \in job : TRUE).title # <<>>
                                 THEN (CHOOSE j \in job : TRUE).title ELSE @]
        @@ [jobDetails |-> job]

\* getCandidateJobApplications: await Promise.all(applications.map(async app =>
\* db.jobs.get(app.jobId))), the reads being issued together; then the
\* summary is computed and returned
getCandidateJobApplications_jobs(t) ==
    /\ task[t].op = "getCandidateJobStatus"
    /\ task[t].pc = "jobs"
    /\ LET applications == [i \in 1..Len(task[t].result) |->
                              WithJob(task[t].result[i])]
       IN  task' = [task EXCEPT ![t].pc = "done",
                       ![t].result = [applications |-> applications,
                                      statusSummary |-> statusSummary(applications)]]
    /\ UNCHANGED <<db, keygen, pre, hist, now, ui>>

\* getCandidateTimeline(candidateId)
getCandidateTimeline(t, candidateId) ==
    /\ Begin(t, [IdleTask EXCEPT !.op = "getCandidateTimeline", !.pc = "read",
                    !.candidateId = candidateId])
    /\ UNCHANGED <<db, keygen, hist, now, ui>>

\* await db.timelineEvents.where('candidateId').equals(candidateId).toArray()
getCandidateTimeline_toArray(t) ==
    /\ task[t].op = "getCandidateTimeline"
    /\ task[t].pc = "read"
    /\ task' = [task EXCEPT ![t].pc = "done",
                   ![t].found = {e \in db.timelineEvents :
                                    e.candidateId = task[t].candidateId}]
    /\ UNCHANGED <<db, keygen, pre, hist, now, ui>>

(***************************************************************************)
(* Jobs, one call at a time: a caller awaits each call before the next.    *)
(***************************************************************************)
JobTitles == {<<"A">>, <<"!">>}

JobSlugs == {<<"a", "-", "1">>}

CallCreateJob ==
    \E id \in 0..MaxJobId, title \in JobTitles, slug \in JobSlugs \cup {<<>>} :
        /\ AllIdle
        /\ id = 0 => keygen.jobs <= MaxJobId
        /\ createJob(1, id, title, slug, JobDefaults)

CallUpdateJob ==
    \E id \in 1..MaxJobId, title \in JobTitles \cup {<<>>},
       slug \in JobSlugs \cup {<<>>} :
        /\ AllIdle
        /\ updateJob(1, id, title, slug)

CallDeleteJob == \E id \in 1..MaxJobId : AllIdle /\ deleteJob(1, id)

StepCreateJobProbe == \E t \in Tasks : createJob_isSlugUnique(t)
StepCreateJobPut == \E t \in Tasks : createJob_put(t)
StepUpdateJobProbe == \E t \in Tasks : updateJob_isSlugUnique(t)
StepUpdateJobUpdate == \E t \in Tasks : updateJob_update(t)
StepUpdateJobGet == \E t \in Tasks : updateJob_get(t)
StepDeleteJobJobs == \E t \in Tasks : deleteJob_jobs(t)
StepDeleteJobCandidates == \E t \in Tasks : deleteJob_candidates(t)
StepDeleteJobAssessments == \E t \in Tasks : deleteJob_assessments(t)
StepReturn == \E t \in Tasks : Return(t)

NextJobs == \/ CallCreateJob
            \/ CallUpdateJob
            \/ CallDeleteJob
            \/ StepCreateJobProbe
            \/ StepCreateJobPut
            \/ StepUpdateJobProbe
            \/ StepUpdateJobUpdate
            \/ StepUpdateJobGet
            \/ StepDeleteJobJobs
            \/ StepDeleteJobCandidates
            \/ StepDeleteJobAssessments
            \/ StepReturn

SpecJobs == Init /\ [][NextJobs]_vars

\* C1: after any sequence of completed createJob, updateJob and deleteJob
\* calls run one after another, no two jobs in the jobs table have the same
\* slug.
SlugsUnique == \A j, k \in db.jobs : j.slug = k.slug => j.id = k.id

C1_SlugUniqueSequential == AllIdle => SlugsUnique

\* C3: createJob picks base (the given slug, else generateSlug(title)) when
\* no job holds it and otherwise base-n for the smallest n >= 1 that no job
\* holds; so k jobs created in sequence with one title get base, base-1,
\* base-2, ...
SlugsOf(jobs) == {j.slug : j \in jobs}

IsFreeSuffix(base, taken, n) ==
    /\ SuffixSlug(base, n) \notin taken
    /\ \A m \in 1..(n - 1) : SuffixSlug(base, m) \in taken

ExpectedSlug(base, taken, slug) ==
    IF base \notin taken THEN slug = base
    ELSE \E n \in 1..(Cardinality(taken) + 1) : /\ slug = SuffixSlug(base, n)
                                                /\ IsFreeSuffix(base, taken, n)

C3_SuffixSequence ==
    \A t \in Tasks :
        (task[t].op = "createJob" /\ task[t].pc = "done") =>
            \E j \in db.jobs :
                /\ j.id = task[t].newId
                /\ ExpectedSlug(IF task[t].baseSlug # <<>>
                                THEN task[t].baseSlug
                                ELSE generateSlug(task[t].title),
                                SlugsOf(pre[t].jobs), j.slug)

(***************************************************************************)
(* Jobs, calls in flight together: a second call may start while the       *)
(* first is suspended at an await.                                         *)
(***************************************************************************)
ConcCreateJob ==
    \E t \in Tasks :
        /\ keygen.jobs + Cardinality({u \in Tasks : InFlight(u)}) <= MaxJobId
        /\ createJob(t, 0, <<"A">>, <<>>, JobDefaults)

ConcUpdateJob ==
    \E t \in Tasks, id \in 1..MaxJobId :
        /\ id \in Ids(db.jobs)
        /\ updateJob(t, id, <<"A">>, <<>>)

NextJobsConc == \/ ConcCreateJob
                \/ ConcUpdateJob
                \/ StepCreateJobProbe
                \/ StepCreateJobPut
                \/ StepUpdateJobProbe
                \/ StepUpdateJobUpdate
                \/ StepUpdateJobGet
                \/ StepReturn

SpecJobsConc == Init /\ [][NextJobsConc]_vars

\* C2: when createJob or updateJob calls are in flight at once and their
\* awaits interleave, the jobs table holds no two jobs with the same slug
\* once they have all completed.
C2_SlugUniqueInterleaved ==
    (\A t \in Tasks : ~InFlight(t)) =>
        \A j \in db.jobs : \A k \in db.jobs \ {j} : j.slug # k.slug

(***************************************************************************)
(* Candidates, one call at a time.                                         *)
(***************************************************************************)
CallCreateCandidate ==
    \E id \in 0..MaxCandId, stage \in {NoStage, "tech"} :
        /\ AllIdle
        /\ keygen.timelineEvents <= MaxEventId
        /\ id = 0 => keygen.candidates <= MaxCandId
        /\ createCandidate(1, id, stage, 1)

CallUpdateCandidate ==
    \E id \in 1..MaxCandId, stage \in Stages \cup {NoStage} :
        /\ AllIdle
        /\ keygen.timelineEvents <= MaxEventId
        /\ updateCandidate(1, id, stage)

StepCreateCandidatePut == \E t \in Tasks : createCandidate_put(t)
StepCreateCandidateEvent == \E t \in Tasks : createCandidate_createTimelineEvent(t)
StepUpdateCandidateGet == \E t \in Tasks : updateCandidate_get(t)
StepUpdateCandidateUpdate == \E t \in Tasks : updateCandidate_update(t)
StepUpdateCandidateEvent == \E t \in Tasks : updateCandidate_createTimelineEvent(t)
StepUpdateCandidateReget == \E t \in Tasks : updateCandidate_reget(t)

NextCand == \/ CallCreateCandidate
            \/ CallUpdateCandidate
            \/ StepCreateCandidatePut
            \/ StepCreateCandidateEvent
            \/ StepUpdateCandidateGet
            \/ StepUpdateCandidateUpdate
            \/ StepUpdateCandidateEvent
            \/ StepUpdateCandidateReget
            \/ StepReturn

SpecCand == Init /\ [][NextCand]_vars

StageChangeEvents(d, id) ==
    {e \in d.timelineEvents : e.candidateId = id /\ e.type = "stage_change"}

SubmittedEvents(d, id) ==
    {e \in StageChangeEvents(d, id) : e.title = "Application Submitted"}

\* C9 as stated: once the createCandidate and updateCandidate calls made so
\* far have completed, each existing candidate has exactly 1 + n
\* stage_change events: one creation event titled "Application Submitted"
\* and n = the number of updateCandidate calls on its id whose patch.stage
\* differed from the stage stored at the time of the call.
C9_OneCreationEvent ==
    AllIdle =>
        \A c \in db.candidates :
            /\ Cardinality(SubmittedEvents(db, c.id)) = 1
            /\ Cardinality(StageChangeEvents(db, c.id))
                   = 1 + Count(hist.staged, c.id)

\* C9 amended: each existing candidate has exactly k + n stage_change
\* events, where k >= 1 is the number of completed createCandidate calls
\* that stored a record under its id (each adds one "Application Submitted"
\* event) and n is as above, a call made while no record is stored under
\* the id counting as one whose patch.stage differs.
C9_EventCount ==
    AllIdle =>
        \A c \in db.candidates :
            /\ Count(hist.created, c.id) >= 1
            /\ Cardinality(SubmittedEvents(db, c.id)) = Count(hist.created, c.id)
            /\ Cardinality(StageChangeEvents(db, c.id))
                   = Count(hist.created, c.id) + Count(hist.staged, c.id)

C9_Witness ==
    /\ AllIdle
    /\ \E c \in db.candidates :
          /\ Count(hist.created, c.id) = 1
          /\ Count(hist.staged, c.id) = 2
          /\ Cardinality(StageChangeEvents(db, c.id)) = 3

\* C10: updateCandidate(id, {stage: to}) on a candidate in stage from # to,
\* forward or backward, succeeds, stores stage = to and appends exactly one
\* stage_change event with fromStage = from and toStage = to; when
\* patch.stage is absent or equals the current stage no event is appended.
UpdateCandidateDone(t) ==
    /\ task[t].op = "updateCandidate"
    /\ Finished(t)
    /\ task[t].id \in Ids(pre[t].candidates)

C10_StageTransitionLogged ==
    \A t \in Tasks :
        UpdateCandidateDone(t) =>
            LET from == StoredStage(pre[t], task[t].id)
                to == task[t].stage
                added == db.timelineEvents \ pre[t].timelineEvents
            IN  /\ task[t].pc = "done"
                /\ pre[t].timelineEvents \subseteq db.timelineEvents
                /\ IF to # NoStage /\ to # from
                   THEN /\ StoredStage(db, task[t].id) = to
                        /\ Cardinality(added) = 1
                        /\ \A e \in added :
                              /\ e.candidateId = task[t].id
                              /\ e.type = "stage_change"
                              /\ e.fromStage = from
                              /\ e.toStage = to
                   ELSE /\ StoredStage(db, task[t].id) = from
                        /\ added = {}

C10_Witness ==
    \E t \in Tasks :
        /\ UpdateCandidateDone(t)
        /\ StoredStage(pre[t], task[t].id) = "offer"
        /\ task[t].stage = "screen"
        /\ \E e \in db.timelineEvents \ pre[t].timelineEvents :
              e.fromStage = "offer" /\ e.toStage = "screen"

(***************************************************************************)
(* Cascading deletes, one call at a time: deleteJob over jobs, candidates   *)
(* and assessments; deleteCandidate over the records a candidate owns.     *)
(***************************************************************************)
CascadeCreateJob ==
    /\ AllIdle
    /\ keygen.jobs <= MaxCascadeJobId
    /\ createJob(1, 0, <<"A">>, <<>>, JobDefaults)

CascadeCreateCandidate ==
    \E jobId \in 1..MaxCascadeJobId :
        /\ AllIdle
        /\ keygen.candidates <= MaxCandId
        /\ keygen.timelineEvents <= MaxCascadeEventId
        /\ jobId \in Ids(db.jobs)
        /\ createCandidate(1, 0, NoStage, jobId)

CascadeCreateAssessment ==
    \E jobId \in 1..MaxCascadeJobId :
        /\ AllIdle
        /\ keygen.assessments <= MaxOwnedId
        /\ jobId \in Ids(db.jobs)
        /\ createAssessment(1, jobId)

CascadeCreateNote ==
    \E candidateId \in 1..MaxCandId :
        /\ AllIdle
        /\ keygen.notes <= MaxOwnedId
        /\ keygen.timelineEvents <= MaxCascadeEventId
        /\ candidateId \in Ids(db.candidates)
        /\ createNote(1, candidateId)

CascadeCreateAssessmentResponse ==
    \E candidateId \in 1..MaxCandId :
        /\ AllIdle
        /\ keygen.assessmentResponses <= MaxOwnedId
        /\ keygen.timelineEvents <= MaxCascadeEventId
        /\ candidateId \in Ids(db.candidates)
        /\ createAssessmentResponse(1, candidateId, 1)

CascadeCreateJobApplication ==
    \E candidateId \in 1..MaxCandId :
        /\ AllIdle
        /\ keygen.jobApplications <= MaxOwnedId
        /\ keygen.timelineEvents <= MaxCascadeEventId
        /\ candidateId \in Ids(db.candidates)
        /\ createJobApplication(1, candidateId, 1, "applied")

CascadeDeleteJob == \E id \in 1..MaxCascadeJobId : AllIdle /\ deleteJob(1, id)

CascadeDeleteCandidate == \E id \in 1..MaxCandId : AllIdle /\ deleteCandidate(1, id)

StepDeleteCandidateCandidates == \E t \in Tasks : deleteCandidate_candidates(t)
StepDeleteCandidateEvents == \E t \in Tasks : deleteCandidate_timelineEvents(t)
StepDeleteCandidateNotes == \E t \in Tasks : deleteCandidate_notes(t)
StepDeleteCandidateResponses == \E t \in Tasks : deleteCandidate_assessmentResponses(t)
StepCreateNoteAdd == \E t \in Tasks : createNote_add(t)
StepCreateNoteEvent == \E t \in Tasks : createNote_createTimelineEvent(t)
StepCreateAssessmentAdd == \E t \in Tasks : createAssessment_add(t)
StepCreateResponseAdd == \E t \in Tasks : createAssessmentResponse_add(t)
StepCreateResponseEvent == \E t \in Tasks : createAssessmentResponse_createTimelineEvent(t)
StepCreateApplicationAdd == \E t \in Tasks : createJobApplication_add(t)
StepCreateApplicationEvent == \E t \in Tasks : createJobApplication_createTimelineEvent(t)

\* createCandidate for a job id the caller names, whether or not it is stored
OwnedCreateCandidate ==
    /\ AllIdle
    /\ keygen.candidates <= MaxCandId
    /\ keygen.timelineEvents <= MaxCascadeEventId
    /\ createCandidate(1, 0, NoStage, 1)

NextDeleteJob == \/ CascadeCreateJob
                 \/ CascadeCreateCandidate
                 \/ CascadeCreateAssessment
                 \/ CascadeDeleteJob
                 \/ StepCreateJobProbe
                 \/ StepCreateJobPut
                 \/ StepCreateCandidatePut
                 \/ StepCreateCandidateEvent
                 \/ StepCreateAssessmentAdd
                 \/ StepDeleteJobJobs
                 \/ StepDeleteJobCandidates
                 \/ StepDeleteJobAssessments
                 \/ StepReturn

SpecDeleteJob == Init /\ [][NextDeleteJob]_vars

NextDeleteCandidate == \/ OwnedCreateCandidate
                       \/ CascadeCreateNote
                       \/ CascadeCreateAssessmentResponse
                       \/ CascadeCreateJobApplication
                       \/ CascadeDeleteCandidate
                       \/ StepCreateCandidatePut
                       \/ StepCreateCandidateEvent
                       \/ StepCreateNoteAdd
                       \/ StepCreateNoteEvent
                       \/ StepCreateResponseAdd
                       \/ StepCreateResponseEvent
                       \/ StepCreateApplicationAdd
                       \/ StepCreateApplicationEvent
                       \/ StepDeleteCandidateCandidates
                       \/ StepDeleteCandidateEvents
                       \/ StepDeleteCandidateNotes
                       \/ StepDeleteCandidateResponses
                       \/ StepReturn

SpecDeleteCandidate == Init /\ [][NextDeleteCandidate]_vars

DeleteJobDone(t) == task[t].op = "deleteJob" /\ task[t].pc = "done"

DeleteCandidateDone(t) == task[t].op = "deleteCandidate" /\ task[t].pc = "done"

\* C4: after deleteJob(id) completes the jobs table has no job with that id
\* and the candidates and assessments tables have no record with jobId = id;
\* jobs, candidates and assessments with other job ids are unchanged.
C4_DeleteJobCascade ==
    \A t \in Tasks :
        DeleteJobDone(t) =>
            /\ db.jobs = {j \in pre[t].jobs : j.id # task[t].id}
            /\ db.candidates = {c \in pre[t].candidates : c.jobId # task[t].id}
            /\ db.assessments = {a \in pre[t].assessments : a.jobId # task[t].id}

C4_Witness ==
    \E t \in Tasks :
        /\ DeleteJobDone(t)
        /\ task[t].id \in Ids(pre[t].jobs)
        /\ \E c \in pre[t].candidates : c.jobId = task[t].id
        /\ \E a \in pre[t].assessments : a.jobId = task[t].id
        /\ db.candidates # {}

\* C7: after deleteCandidate(id) completes no candidate with that id and no
\* TimelineEvent, Note or AssessmentResponse with candidateId = id remains;
\* records of other candidates are unchanged.
C7_DeleteCandidateCascade ==
    \A t \in Tasks :
        DeleteCandidateDone(t) =>
            /\ db.candidates = {c \in pre[t].candidates : c.id # task[t].id}
            /\ db.timelineEvents =
                  {e \in pre[t].timelineEvents : e.candidateId # task[t].id}
            /\ db.notes = {n \in pre[t].notes : n.candidateId # task[t].id}
            /\ db.assessmentResponses =
                  {r \in pre[t].assessmentResponses : r.candidateId # task[t].id}

C7_Witness ==
    \E t \in Tasks :
        /\ DeleteCandidateDone(t)
        /\ task[t].id \in Ids(pre[t].candidates)
        /\ \E n \in pre[t].notes : n.candidateId = task[t].id
        /\ \E r \in pre[t].assessmentResponses : r.candidateId = task[t].id
        /\ \E e \in pre[t].timelineEvents : e.candidateId = task[t].id
        /\ db.timelineEvents # {}

\* C8: after deleteCandidate(id) completes no JobApplication with
\* candidateId = id remains in the jobApplications table.
C8_DeleteCandidateApplications ==
    \A t \in Tasks :
        DeleteCandidateDone(t) =>
            \A a \in db.jobApplications : a.candidateId # task[t].id

(***************************************************************************)
(* Cascading deletes with a store that may reject a request.               *)
(***************************************************************************)
StepStorageError ==
    \E t \in Tasks : /\ task[t].op \in {"deleteJob", "deleteCandidate"}
                     /\ StorageError(t)

NextCascadeFail == \/ CascadeCreateJob
                   \/ CascadeCreateCandidate
                   \/ CascadeCreateAssessment
                   \/ CascadeCreateNote
                   \/ CascadeDeleteJob
                   \/ CascadeDeleteCandidate
                   \/ StepCreateJobProbe
                   \/ StepCreateJobPut
                   \/ StepCreateCandidatePut
                   \/ StepCreateCandidateEvent
                   \/ StepCreateAssessmentAdd
                   \/ StepCreateNoteAdd
                   \/ StepCreateNoteEvent
                   \/ StepDeleteJobJobs
                   \/ StepDeleteJobCandidates
                   \/ StepDeleteJobAssessments
                   \/ StepDeleteCandidateCandidates
                   \/ StepDeleteCandidateEvents
                   \/ StepDeleteCandidateNotes
                   \/ StepDeleteCandidateResponses
                   \/ StepStorageError
                   \/ StepReturn

SpecCascadeFail == Init /\ [][NextCascadeFail]_vars

\* C6: if a storage failure happens at any step of deleteJob or
\* deleteCandidate, the operation reports the error and every table is
\* exactly as it was before the call.
C6_CascadeAllOrNothing ==
    \A t \in Tasks :
        (task[t].op \in {"deleteJob", "deleteCandidate"} /\ task[t].pc = "failed")
            => db = pre[t]

(***************************************************************************)
(* Cascading deletes with reads of other callers in flight.                *)
(***************************************************************************)
ConcDeleteJob == \E id \in 1..MaxCascadeJobId : deleteJob(1, id)

ConcDeleteCandidate == \E id \in 1..MaxCandId : deleteCandidate(1, id)

ConcGetJobById == \E id \in 1..MaxCascadeJobId : getJobById(2, id)

ConcGetCandidates == \E jobId \in 1..MaxCascadeJobId : getCandidates(2, jobId)

ConcGetCandidateTimeline == \E id \in 1..MaxCandId : getCandidateTimeline(2, id)

StepGetJobById == \E t \in Tasks : getJobById_get(t)
StepGetCandidates == \E t \in Tasks : getCandidates_toArray(t)
StepGetCandidateTimeline == \E t \in Tasks : getCandidateTimeline_toArray(t)

NextCascadeConc == \/ CascadeCreateJob
                   \/ CascadeCreateCandidate
                   \/ CascadeCreateAssessment
                   \/ ConcDeleteJob
                   \/ ConcDeleteCandidate
                   \/ ConcGetJobById
                   \/ ConcGetCandidates
                   \/ ConcGetCandidateTimeline
                   \/ StepCreateJobProbe
                   \/ StepCreateJobPut
                   \/ StepCreateCandidatePut
                   \/ StepCreateCandidateEvent
                   \/ StepCreateAssessmentAdd
                   \/ StepDeleteJobJobs
                   \/ StepDeleteJobCandidates
                   \/ StepDeleteJobAssessments
                   \/ StepDeleteCandidateCandidates
                   \/ StepDeleteCandidateEvents
                   \/ StepDeleteCandidateNotes
                   \/ StepDeleteCandidateResponses
                   \/ StepGetJobById
                   \/ StepGetCandidates
                   \/ StepGetCandidateTimeline
                   \/ StepReturn

SpecCascadeConc == Init /\ [][NextCascadeConc]_vars

\* the owner that call u set out to delete is gone, dependents remain
HalfDeletedJob(u) ==
    /\ task[u].op = "deleteJob"
    /\ InFlight(u)
    /\ task[u].id \in Ids(pre[u].jobs)
    /\ task[u].id \notin Ids(db.jobs)
    /\ \/ \E c \in db.candidates : c.jobId = task[u].id
       \/ \E a \in db.assessments : a.jobId = task[u].id

HalfDeletedCandidate(u) ==
    /\ task[u].op = "deleteCandidate"
    /\ InFlight(u)
    /\ task[u].id \in Ids(pre[u].candidates)
    /\ task[u].id \notin Ids(db.candidates)
    /\ \/ \E e \in db.timelineEvents : e.candidateId = task[u].id
       \/ \E n \in db.notes : n.candidateId = task[u].id
       \/ \E r \in db.assessmentResponses : r.candidateId = task[u].id

IsRead(t) == task[t].op \in {"getJobById", "getCandidates", "getCandidateTimeline"}

\* C5: no read issued by another operation while deleteJob(id) or
\* deleteCandidate(id) is in flight is served from a state in which the
\* owner is gone but a dependent record is still present.
C5_DeleteAtomicToReaders ==
    [][\A t \in Tasks :
          (IsRead(t) /\ task[t].pc = "read" /\ task'[t].pc = "done") =>
              \A u \in Tasks \ {t} :
                  ~HalfDeletedJob(u) /\ ~HalfDeletedCandidate(u)]_vars

(***************************************************************************)
(* Candidates, calls in flight together and a store that may reject a      *)
(* request.                                                                *)
(***************************************************************************)
ConcCreateCandidate ==
    \E t \in Tasks :
        /\ keygen.candidates + Cardinality({u \in Tasks : InFlight(u)})
               <= MaxOwnedId
        /\ keygen.timelineEvents + Cardinality({u \in Tasks : InFlight(u)})
               <= MaxEventId
        /\ createCandidate(t, 0, NoStage, 1)

ConcUpdateCandidate ==
    \E t \in Tasks, id \in 1..MaxOwnedId, stage \in {"screen", "tech"} :
        /\ id \in Ids(db.candidates)
        /\ keygen.timelineEvents + Cardinality({u \in Tasks : InFlight(u)})
               <= MaxEventId
        /\ Count(hist.staged, id) < MaxEventId
        /\ updateCandidate(t, id, stage)

StepStorageErrorCandidate ==
    \E t \in Tasks : /\ task[t].op \in {"createCandidate", "updateCandidate"}
                     /\ StorageError(t)

NextCandConc == \/ ConcCreateCandidate
                \/ ConcUpdateCandidate
                \/ StepCreateCandidatePut
                \/ StepCreateCandidateEvent
                \/ StepUpdateCandidateGet
                \/ StepUpdateCandidateUpdate
                \/ StepUpdateCandidateEvent
                \/ StepUpdateCandidateReget
                \/ StepStorageErrorCandidate
                \/ StepReturn

SpecCandConc == Init /\ [][NextCandConc]_vars

\* the "Stage Changed" events of a candidate, oldest first
ChangedEvents(d, id) ==
    {e \in StageChangeEvents(d, id) : e.title = "Stage Changed"}

IsLastEvent(E, e) == \A f \in E : f.id <= e.id

NextEvent(E, e, f) == /\ e.id < f.id
                      /\ \A g \in E : ~(e.id < g.id /\ g.id < f.id)

\* C11: in every state, under any interleaving of createCandidate and
\* updateCandidate calls and any storage failure, each stored candidate has
\* its creation event, its stored stage is the toStage of its latest
\* stage_change event (the stage it was created with when it has none), and
\* the from/to values of its stage_change events form a chain: each event's
\* fromStage is the toStage of the event before it.
C11_StageEventAtomic ==
    \A c \in db.candidates :
        LET E == ChangedEvents(db, c.id)
        IN  /\ SubmittedEvents(db, c.id) # {}
            /\ E = {} => c.stage = "applied"
            /\ \A e \in E : IsLastEvent(E, e) => e.toStage = c.stage
            /\ \A e, f \in E : NextEvent(E, e, f) => f.fromStage = e.toStage

(***************************************************************************)
(* Job applications, one call at a time.                                   *)
(***************************************************************************)
ApplyCreateJob ==
    /\ AllIdle
    /\ keygen.jobs <= MaxApplyJobId
    /\ createJob(1, 0, <<"A">>, <<>>, JobDefaults)

CallCreateJobApplication ==
    \E candidateId \in 1..MaxApplyCandId, jobId \in 1..MaxApplyJobId :
        /\ AllIdle
        /\ keygen.jobApplications <= MaxApplications
        /\ keygen.timelineEvents <= MaxApplyEventId
        /\ createJobApplication(1, candidateId, jobId, "applied")

CallApplyCandidateToJob ==
    \E candidateId \in 1..MaxApplyCandId, jobId \in 1..MaxApplyJobId :
        /\ AllIdle
        /\ keygen.jobApplications <= MaxApplications
        /\ keygen.timelineEvents <= MaxApplyEventId
        /\ applyCandidateToJob(1, candidateId, jobId)

CallUpdateJobApplicationStatus ==
    \E id \in 1..MaxApplications, newStatus \in {"screen", "hired"},
       notes \in {<<>>, <<"n">>} :
        /\ AllIdle
        /\ keygen.timelineEvents <= MaxApplyEventId
        /\ updateJobApplicationStatus(1, id, newStatus, notes)

StepApplyGet == \E t \in Tasks : applyCandidateToJob_get(t)
StepApplyFirst == \E t \in Tasks : applyCandidateToJob_first(t)
StepUpdateStatusGet == \E t \in Tasks : updateJobApplicationStatus_get(t)
StepUpdateApplicationUpdate == \E t \in Tasks : updateJobApplication_update(t)
StepUpdateApplicationGet == \E t \in Tasks : updateJobApplication_get(t)
StepUpdateStatusEvent == \E t \in Tasks : updateJobApplicationStatus_createTimelineEvent(t)
StepUpdateStatusReget == \E t \in Tasks : updateJobApplicationStatus_reget(t)

NextApply == \/ ApplyCreateJob
             \/ CallCreateJobApplication
             \/ CallApplyCandidateToJob
             \/ CallUpdateJobApplicationStatus
             \/ StepCreateJobProbe
             \/ StepCreateJobPut
             \/ StepCreateApplicationAdd
             \/ StepCreateApplicationEvent
             \/ StepApplyGet
             \/ StepApplyFirst
             \/ StepUpdateStatusGet
             \/ StepUpdateApplicationUpdate
             \/ StepUpdateApplicationGet
             \/ StepUpdateStatusEvent
             \/ StepUpdateStatusReget
             \/ StepReturn

SpecApply == Init /\ [][NextApply]_vars

ApplicationsOf(d, candidateId, jobId) ==
    {a \in d.jobApplications : a.candidateId = candidateId /\ a.jobId = jobId}

ApplyFinished(t) == task[t].op = "applyCandidateToJob" /\ Finished(t)

\* C12: applyCandidateToJob(c, j) for a job j that exists, on a store that
\* already holds an application of c to j, fails with the
\* duplicate-application error, adds no JobApplication row and appends no
\* timeline event.
C12_DuplicateApplicationRejected ==
    \A t \in Tasks :
        (/\ ApplyFinished(t)
         /\ task[t].jobId \in Ids(pre[t].jobs)
         /\ ApplicationsOf(pre[t], task[t].candidateId, task[t].jobId) # {})
        => /\ task[t].pc = "failed"
           /\ task[t].error = "Candidate has already applied to this job"
           /\ db.jobApplications = pre[t].jobApplications
           /\ db.timelineEvents = pre[t].timelineEvents

\* C13: in every reachable state the jobApplications table holds at most
\* one row for each (candidateId, jobId) pair.
C13_OneApplicationPerPair ==
    \A a, b \in db.jobApplications :
        (a.candidateId = b.candidateId /\ a.jobId = b.jobId) => a.id = b.id

UpdateStatusDone(t) ==
    /\ task[t].op = "updateJobApplicationStatus"
    /\ Finished(t)
    /\ task[t].id \in Ids(pre[t].jobApplications)

\* updateJobApplicationStatus(id, t, notes) on an existing application with
\* status s stores status = t and appends exactly one status_change event
\* for the application's candidate with oldStatus = s, newStatus = t and
\* the given notes
StatusChangeLogged ==
    \A t \in Tasks :
        UpdateStatusDone(t) =>
            LET before == CHOOSE a \in pre[t].jobApplications : a.id = task[t].id
                added == db.timelineEvents \ pre[t].timelineEvents
            IN  /\ task[t].pc = "done"
                /\ \E a \in db.jobApplications :
                      a.id = task[t].id /\ a.status = task[t].stage
                /\ pre[t].timelineEvents \subseteq db.timelineEvents
                /\ Cardinality(added) = 1
                /\ \A e \in added :
                      /\ e.type = "status_change"
                      /\ e.candidateId = before.candidateId
                      /\ e.oldStatus = before.status
                      /\ e.newStatus = task[t].stage
                      /\ e.notes = task[t].notes

\* applyCandidateToJob(c, j) for a job that exists and a pair with no
\* application succeeds, creates one application with status "applied" and
\* exactly one job_application event
ApplicationCreated ==
    \A t \in Tasks :
        (/\ ApplyFinished(t)
         /\ task[t].jobId \in Ids(pre[t].jobs)
         /\ ApplicationsOf(pre[t], task[t].candidateId, task[t].jobId) = {})
        => LET created == db.jobApplications \ pre[t].jobApplications
               added == db.timelineEvents \ pre[t].timelineEvents
           IN  /\ task[t].pc = "done"
               /\ Cardinality(created) = 1
               /\ \A a \in created : /\ a.candidateId = task[t].candidateId
                                     /\ a.jobId = task[t].jobId
                                     /\ a.status = "applied"
               /\ Cardinality(added) = 1
               /\ \A e \in added : e.type = "job_application"

\* C15: for an existing application with status s,
\* updateJobApplicationStatus(id, t, notes) stores status = t and appends
\* exactly one status_change event for the application's candidate with
\* oldStatus = s, newStatus = t and the given notes; applyCandidateToJob for
\* an existing job and a pair without application creates one application
\* with status "applied" and exactly one job_application event.
C15_StatusChangeAndApplicationLogged == StatusChangeLogged /\ ApplicationCreated

(***************************************************************************)
(* Calls that name a job or an application the store may not hold.         *)
(***************************************************************************)
NotFoundCreateJob ==
    /\ AllIdle
    /\ keygen.jobs <= MaxRefId
    /\ createJob(1, 0, <<"A">>, <<>>, JobDefaults)

NotFoundCreateJobApplication ==
    \E jobId \in 1..MaxRefId :
        /\ AllIdle
        /\ keygen.jobApplications <= MaxRefId
        /\ keygen.timelineEvents <= MaxRefEventId
        /\ createJobApplication(1, 1, jobId, "applied")

NotFoundApplyCandidateToJob ==
    \E jobId \in 1..MaxRefId : AllIdle /\ applyCandidateToJob(1, 1, jobId)

NotFoundUpdateJobApplicationStatus ==
    \E id \in 1..MaxRefId :
        /\ AllIdle
        /\ keygen.timelineEvents <= MaxRefEventId
        /\ updateJobApplicationStatus(1, id, "hired", <<>>)

NextNotFound == \/ NotFoundCreateJob
                \/ NotFoundCreateJobApplication
                \/ NotFoundApplyCandidateToJob
                \/ NotFoundUpdateJobApplicationStatus
                \/ StepCreateJobProbe
                \/ StepCreateJobPut
                \/ StepCreateApplicationAdd
                \/ StepCreateApplicationEvent
                \/ StepApplyGet
                \/ StepApplyFirst
                \/ StepUpdateStatusGet
                \/ StepUpdateApplicationUpdate
                \/ StepUpdateApplicationGet
                \/ StepUpdateStatusEvent
                \/ StepUpdateStatusReget
                \/ StepReturn

SpecNotFound == Init /\ [][NextNotFound]_vars

\* C14: applyCandidateToJob with a jobId that resolves to no job, and
\* updateJobApplicationStatus with an applicationId that resolves to no
\* application, each fail with a not-found error that reaches the caller
\* and leave every table unchanged.
C14_NotFoundChangesNothing ==
    \A t \in Tasks :
        /\ (ApplyFinished(t) /\ task[t].jobId \notin Ids(pre[t].jobs))
           => /\ task[t].pc = "failed"
              /\ task[t].error = "Job not found"
              /\ db = pre[t]
        /\ (/\ task[t].op = "updateJobApplicationStatus"
            /\ Finished(t)
            /\ task[t].id \notin Ids(pre[t].jobApplications))
           => /\ task[t].pc = "failed"
              /\ task[t].error = "Application not found"
              /\ db = pre[t]

C14_Witness ==
    \E t \in Tasks :
        /\ task[t].op = "updateJobApplicationStatus"
        /\ task[t].pc = "failed"
        /\ task[t].id \notin Ids(pre[t].jobApplications)
        /\ db.jobs # {}
        /\ db.timelineEvents # {}

(***************************************************************************)
(* The application summary of a candidate.                                 *)
(***************************************************************************)
StatusCreateJob ==
    /\ AllIdle
    /\ keygen.jobs <= MaxApplyJobId
    /\ createJob(1, 0, <<"A">>, <<>>, JobDefaults)

StatusCreateJobApplication ==
    \E candidateId \in 1..MaxStatusCandId, status \in Stages :
        /\ AllIdle
        /\ keygen.jobApplications <= MaxStatusApps
        /\ createJobApplication(1, candidateId, 1, status)

CallGetCandidateJobStatus ==
    \E candidateId \in 1..MaxStatusCandId :
        AllIdle /\ getCandidateJobStatus(1, candidateId)

StepGetApplicationsToArray == \E t \in Tasks : getCandidateJobApplications_toArray(t)
StepGetApplicationsJobs == \E t \in Tasks : getCandidateJobApplications_jobs(t)

NextJobStatus == \/ StatusCreateJob
                 \/ StatusCreateJobApplication
                 \/ CallGetCandidateJobStatus
                 \/ StepCreateJobProbe
                 \/ StepCreateJobPut
                 \/ StepCreateApplicationAdd
                 \/ StepCreateApplicationEvent
                 \/ StepGetApplicationsToArray
                 \/ StepGetApplicationsJobs
                 \/ StepReturn

SpecJobStatus == Init /\ [][NextJobStatus]_vars

GetStatusDone(t) == task[t].op = "getCandidateJobStatus" /\ task[t].pc = "done"

IdsIn(arr) == {arr[i].id : i \in 1..Len(arr)}

\* C16: getCandidateJobStatus(c) returns totalApplications = the number of
\* applications of c; the lists hired, rejected, interviewScheduled and
\* applied are pairwise disjoint and together hold every application of c
\* exactly once; no table is changed.
C16_StatusPartition ==
    \A t \in Tasks :
        GetStatusDone(t) =>
            LET mine == {a \in pre[t].jobApplications :
                            a.candidateId = task[t].candidateId}
                sum == task[t].result.statusSummary
                lists == <<sum.hired, sum.rejected, sum.interviewScheduled,
                           sum.applied>>
            IN  /\ sum.totalApplications = Cardinality(mine)
                /\ \A i, j \in 1..4 :
                      i # j => IdsIn(lists[i]) \cap IdsIn(lists[j]) = {}
                /\ UNION {IdsIn(lists[i]) : i \in 1..4} = Ids(mine)
                /\ Len(lists[1]) + Len(lists[2]) + Len(lists[3]) + Len(lists[4])
                       = Cardinality(mine)
                /\ db = pre[t]

C16_Witness ==
    \E t \in Tasks :
        /\ GetStatusDone(t)
        /\ Len(task[t].result.statusSummary.interviewScheduled) = 1
        /\ task[t].result.statusSummary.totalApplications = 1
        /\ \E a \in db.jobApplications :
              a.candidateId = task[t].candidateId /\ a.status = "offer"
        /\ \E a \in db.jobApplications : a.candidateId # task[t].candidateId

(***************************************************************************)
(* Reordering the jobs.                                                    *)
(***************************************************************************)
ReorderCreateJob ==
    \E order \in 1..MaxOrder :
        /\ AllIdle
        /\ keygen.jobs <= MaxReorderJobId
        /\ createJob(1, 0, <<"A">>, <<>>, [JobDefaults EXCEPT !.order = order])

CallReorderJobs ==
    \E fromOrder \in 1..MaxOrder, toOrder \in 1..MaxOrder :
        AllIdle /\ reorderJobs(1, fromOrder, toOrder)

StepReorderJobsTransaction == \E t \in Tasks : reorderJobs_transaction(t)

NextReorder == \/ ReorderCreateJob
               \/ CallReorderJobs
               \/ Tick
               \/ StepCreateJobProbe
               \/ StepCreateJobPut
               \/ StepReorderJobsTransaction
               \/ StepReturn

SpecReorder == Init /\ [][NextReorder]_vars

ReorderDone(t) == task[t].op = "reorderJobs" /\ Finished(t)

Holders(d, order) == {j \in d.jobs : j.order = order}

\* the holders of an order value with no holder of a smaller id
FirstHolders(d, order) ==
    {j \in Holders(d, order) : \A k \in Holders(d, order) : j.id <= k.id}

\* job j as stored in d, its updatedAt aside
SameButUpdatedAt(j, k) == [j EXCEPT !.updatedAt = 0] = [k EXCEPT !.updatedAt = 0]

\* job a of the earlier table now holds order b, and nothing else of it but
\* updatedAt has changed
MovedTo(a, order) ==
    \E k \in db.jobs : /\ k.id = a.id
                       /\ k.order = order
                       /\ SameButUpdatedAt([a EXCEPT !.order = order], k)

Unchanged(j) == j \in db.jobs

\* the orders held, with the number of jobs holding each
OrderCounts(jobs) ==
    [o \in {j.order : j \in jobs} |-> Cardinality({j \in jobs : j.order = o})]

\* C17 as stated: for any jobs A and B holding order values a and b,
\* reorderJobs(a, b) leaves A with order b and B with order a, changes the
\* order of no other job and no field of any job besides updatedAt, and
\* keeps the multiset of order values.
C17_SwapAnyHolders ==
    \A t \in Tasks :
        ReorderDone(t) =>
            \A A \in Holders(pre[t], task[t].fromOrder) :
                \A B \in Holders(pre[t], task[t].toOrder) :
                    /\ task[t].pc = "done"
                    /\ MovedTo(A, task[t].toOrder)
                    /\ MovedTo(B, task[t].fromOrder)
                    /\ \A j \in pre[t].jobs \ {A, B} : Unchanged(j)
                    /\ Ids(db.jobs) = Ids(pre[t].jobs)
                    /\ OrderCounts(db.jobs) = OrderCounts(pre[t].jobs)

\* C17 amended: when some job holds a and some job holds b, with A and B
\* the first such jobs in the sequence of the order index (order, then id;
\* the only such jobs when order values are not shared), reorderJobs(a, b)
\* leaves A with order b and B with order a, changes no other job and no
\* field of A and B besides order and updatedAt, and keeps the multiset of
\* order values.
C17_SwapFirstHolders ==
    \A t \in Tasks :
        ReorderDone(t) =>
            \A A \in FirstHolders(pre[t], task[t].fromOrder) :
                \A B \in FirstHolders(pre[t], task[t].toOrder) :
                    /\ task[t].pc = "done"
                    /\ MovedTo(A, task[t].toOrder)
                    /\ MovedTo(B, task[t].fromOrder)
                    /\ \A j \in pre[t].jobs \ {A, B} : Unchanged(j)
                    /\ Ids(db.jobs) = Ids(pre[t].jobs)
                    /\ OrderCounts(db.jobs) = OrderCounts(pre[t].jobs)

C17_Witness ==
    \E t \in Tasks :
        /\ ReorderDone(t)
        /\ task[t].fromOrder # task[t].toOrder
        /\ \E A \in FirstHolders(pre[t], task[t].fromOrder) :
              \E B \in FirstHolders(pre[t], task[t].toOrder) :
                  /\ MovedTo(A, task[t].toOrder)
                  /\ MovedTo(B, task[t].fromOrder)
                  /\ pre[t].jobs \ {A, B} # {}
                  /\ \E k \in db.jobs : k.id = A.id /\ k.updatedAt # A.updatedAt

\* C18: when no job has order = a or no job has order = b, reorderJobs(a, b)
\* raises no error and leaves every job record, order and updatedAt
\* included, unchanged.
C18_ReorderNoOp ==
    \A t \in Tasks :
        (/\ ReorderDone(t)
         /\ \/ Holders(pre[t], task[t].fromOrder) = {}
            \/ Holders(pre[t], task[t].toOrder) = {})
        => /\ task[t].pc = "done"
           /\ db.jobs = pre[t].jobs
           /\ db = pre[t]

C18_Witness ==
    \E t \in Tasks :
        /\ ReorderDone(t)
        /\ Holders(pre[t], task[t].fromOrder) # {}
        /\ Holders(pre[t], task[t].toOrder) = {}
        /\ now > 0
        /\ \E j \in db.jobs : j.updatedAt < now

(***************************************************************************)
(* Listing the jobs.                                                       *)
(***************************************************************************)
\* what a job form or the seed generator hands to createJob
JobForms ==
    {[title |-> <<"A">>, description |-> <<>>, tags |-> {}, status |-> "active"],
     [title |-> <<"b">>, description |-> <<>>, tags |-> {},
      status |-> "archived"],
     [title |-> <<"A">>, description |-> <<"x", "B">>, tags |-> {},
      status |-> "active"],
     [title |-> <<"A">>, description |-> <<>>, tags |-> {<<"x", "B">>},
      status |-> "archived"]}

ListCreateJob ==
    \E form \in JobForms, order \in 1..MaxListOrder :
        /\ AllIdle
        /\ keygen.jobs <= MaxListJobId
        /\ createJob(1, 0, form.title, <<>>,
                     [JobDefaults EXCEPT !.order = order,
                         !.status = form.status, !.tags = form.tags,
                         !.description = form.description])

\* the filters of the dashboard and the apply dialog: no pagination
PlainFilters ==
    {[NoFilters EXCEPT !.status = status, !.tags = tags, !.search = search] :
        status \in {"", "active"}, tags \in {{}, {<<"x", "B">>, <<"x">>}},
        search \in {<<>>, <<"B">>}}

\* the filters of the jobs page: with page and pageSize
PageFilters ==
    {[filters EXCEPT !.page = page, !.pageSize = pageSize] :
        filters \in PlainFilters, page \in 1..MaxPage,
        pageSize \in 1..MaxPageSize}

CallGetJobs ==
    \E filters \in PlainFilters \cup PageFilters :
        AllIdle /\ getJobs(1, filters)

StepGetJobsToArray == \E t \in Tasks : getJobs_toArray(t)

NextGetJobs == \/ ListCreateJob
               \/ CallGetJobs
               \/ StepCreateJobProbe
               \/ StepCreateJobPut
               \/ StepGetJobsToArray
               \/ StepReturn

SpecGetJobs == Init /\ [][NextGetJobs]_vars

GetJobsDone(t) == task[t].op = "getJobs" /\ task[t].pc = "done"

\* search is a substring of str, letter case aside
IsSubstringIgnoringCase(search, str) ==
    \E i \in 1..(Len(str) - Len(search) + 1) :
        \A k \in 1..Len(search) :
            toLowerCase(str[i + k - 1]) = toLowerCase(search[k])

\* job matches every option that filters gives
Matching(job, filters) ==
    /\ filters.status # "" => job.status = filters.status
    /\ filters.tags # {} => filters.tags \cap job.tags # {}
    /\ filters.search # <<>> =>
          \/ IsSubstringIgnoringCase(filters.search, job.title)
          \/ IsSubstringIgnoringCase(filters.search, job.description)
          \/ \E tag \in job.tags : IsSubstringIgnoringCase(filters.search, tag)

Range(arr) == {arr[i] : i \in 1..Len(arr)}

Position(arr, x) == CHOOSE i \in 1..Len(arr) : arr[i] = x

\* C19: getJobs(filters) without pagination returns exactly the jobs that
\* match every given option (status equal; at least one filter tag among
\* the job's tags; search a case-insensitive substring of title,
\* description or a tag), each once, sorted by order ascending, and two
\* returned jobs stand in the same relative order under every filter.
C19_FilterAndOrder ==
    \A t \in Tasks :
        (GetJobsDone(t) /\ ~Paginated(task[t].filters)) =>
            LET jobs == task[t].result
                matching == {j \in pre[t].jobs : Matching(j, task[t].filters)}
            IN  /\ Range(jobs) = matching
                /\ Len(jobs) = Cardinality(matching)
                /\ \A i, k \in 1..Len(jobs) :
                      i < k => jobs[i].order <= jobs[k].order
                /\ \A filters \in PlainFilters :
                      LET other == FilteredJobs(pre[t].jobs, filters)
                      IN  \A j, k \in Range(jobs) \cap Range(other) :
                              (Position(jobs, j) < Position(jobs, k))
                                  = (Position(other, j) < Position(other, k))
                /\ db = pre[t]

C19_Witness ==
    \E t \in Tasks :
        /\ GetJobsDone(t)
        /\ ~Paginated(task[t].filters)
        /\ task[t].filters.tags # {}
        /\ task[t].filters.search # <<>>
        /\ Len(task[t].result) = 1
        /\ Cardinality(db.jobs) = 2
        /\ \A j \in Range(task[t].result) : Cardinality(j.tags) = 1

RECURSIVE Pages(_, _, _)
Pages(jobs, n, pageSize) ==
    IF n = 0 THEN <<>>
    ELSE Pages(jobs, n - 1, pageSize) \o Paginate(jobs, n, pageSize).data

\* C20: for page >= 1 and pageSize >= 1, total is the number of jobs
\* matching the filter, totalPages = ceil(total / pageSize), data holds the
\* elements at positions (page-1)*pageSize .. page*pageSize - 1 of the
\* filtered ordered list, hasMore is true exactly when page*pageSize <
\* total, and pages 1..totalPages concatenated are the unpaginated result.
C20_Pagination ==
    \A t \in Tasks :
        (GetJobsDone(t) /\ Paginated(task[t].filters)) =>
            LET f == task[t].filters
                r == task[t].result
                full == FilteredJobs(pre[t].jobs, f)
                total == Cardinality({j \in pre[t].jobs : Matching(j, f)})
                first == (f.page - 1) * f.pageSize
                inPage == {i \in 1..Len(full) :
                              first <= i - 1 /\ i - 1 <= f.page * f.pageSize - 1}
            IN  /\ r.pagination.total = total
                /\ r.pagination.page = f.page
                /\ r.pagination.pageSize = f.pageSize
                /\ (r.pagination.totalPages - 1) * f.pageSize < total
                /\ total <= r.pagination.totalPages * f.pageSize
                /\ Len(r.data) = Cardinality(inPage)
                /\ \A i \in 1..Len(r.data) : r.data[i] = full[first + i]
                /\ r.pagination.hasMore = (f.page * f.pageSize < total)
                /\ Pages(full, r.pagination.totalPages, f.pageSize) = full

C20_Witness ==
    \E t \in Tasks :
        /\ GetJobsDone(t)
        /\ Paginated(task[t].filters)
        /\ task[t].filters.page = 2
        /\ task[t].filters.pageSize = 1
        /\ task[t].result.pagination.total = 2
        /\ task[t].result.pagination.totalPages = 2
        /\ Len(task[t].result.data) = 1
        /\ ~task[t].result.pagination.hasMore

(***************************************************************************)
(* Startup seeding (App / initializeData)                                  *)
(***************************************************************************)
MaxSeedJobs == 1

\* data/seedData: generateSeedData() and generateJobApplications(), each
\* item as the call DatabaseService.create*(item) up to its first await;
\* the records come from the factories and carry no stored id yet
seedJob(i) == [IdleTask EXCEPT !.op = "createJob", !.pc = "probe",
                  !.title = <<"a">>, !.slug = generateSlug(<<"a">>),
                  !.baseSlug = generateSlug(<<"a">>), !.counter = 1,
                  !.data = [JobDefaults EXCEPT !.order = i]]

seedData ==
    [i \in 1..MaxSeedJobs |-> seedJob(i)] \o
    << [IdleTask EXCEPT !.op = "createCandidate", !.pc = "write",
                        !.stage = "applied"],
       [IdleTask EXCEPT !.op = "createAssessment", !.pc = "write"],
       [IdleTask EXCEPT !.op = "createJobApplication", !.pc = "add",
                        !.stage = "applied"] >>

\* useEffect(() => { initializeData() }, [])
initializeData(t) ==
    /\ Begin(t, [IdleTask EXCEPT !.op = "initializeData", !.pc = "stats"])
    /\ UNCHANGED <<db, keygen, hist, now, ui>>

\* const stats = await DatabaseService.getStats(); if (stats.jobs === 0)
initializeData_getStats(t) ==
    /\ task[t].op = "initializeData"
    /\ task[t].pc = "stats"
    /\ LET jobs == Cardinality(db.jobs)
       IN  task' = [task EXCEPT ![t].stats = jobs,
                                ![t].seed = 1,
                                ![t].pc = IF jobs = 0 THEN "seed" ELSE "done"]
    /\ UNCHANGED <<db, keygen, pre, hist, now, ui>>

\* for (const item of ...) { await DatabaseService.create*(item) }: the
\* next item's call starts, or the loops are over
initializeData_create(t) ==
    /\ task[t].op = "initializeData"
    /\ task[t].pc = "seed"
    /\ IF task[t].seed <= Len(seedData)
       THEN task' = [task EXCEPT ![t] =
                       [seedData[task[t].seed] EXCEPT
                           !.caller = "initializeData",
                           !.seed = task[t].seed,
                           !.stats = task[t].stats]]
       ELSE task' = [task EXCEPT ![t].pc = "done"]
    /\ UNCHANGED <<db, keygen, pre, hist, now, ui>>

\* the awaited create* call settles: the loop goes on, or the catch block
\* logs the error and initializeData ends
initializeData_resume(t) ==
    /\ task[t].caller = "initializeData"
    /\ Finished(t)
    /\ task' = [task EXCEPT ![t] =
                   [IdleTask EXCEPT !.op = "initializeData",
                       !.pc = IF task[t].pc = "done" THEN "seed" ELSE "done",
                       !.seed = task[t].seed + 1,
                       !.stats = task[t].stats]]
    /\ UNCHANGED <<db, keygen, pre, hist, now, ui>>

\* a task inside the seeding branch of initializeData
Seeding(t) == \/ task[t].caller = "initializeData"
              \/ task[t].op = "initializeData" /\ task[t].pc = "seed"

(***************************************************************************)
(* Startup: the effect may run again while an earlier run is in flight     *)
(* (a second mount, a second tab on the same store).                       *)
(***************************************************************************)
CallInitializeData == \E t \in Tasks : initializeData(t)

StepInitializeDataStats == \E t \in Tasks : initializeData_getStats(t)

StepInitializeDataCreate == \E t \in Tasks : initializeData_create(t)

StepInitializeDataResume == \E t \in Tasks : initializeData_resume(t)

StepSeedStorageError ==
    \E t \in Tasks : task[t].caller = "initializeData" /\ StorageError(t)

StepInitializeDataReturn ==
    \E t \in Tasks : task[t].op = "initializeData" /\ Return(t)

NextSeed == \/ CallInitializeData
            \/ StepInitializeDataStats
            \/ StepInitializeDataCreate
            \/ StepInitializeDataResume
            \/ StepCreateJobProbe
            \/ StepCreateJobPut
            \/ StepCreateCandidatePut
            \/ StepCreateCandidateEvent
            \/ StepCreateAssessmentAdd
            \/ StepCreateApplicationAdd
            \/ StepCreateApplicationEvent
            \/ StepSeedStorageError
            \/ StepInitializeDataReturn

SpecSeed == Init /\ [][NextSeed]_vars

\* C21: over any number of initializeData runs, overlapping ones included,
\* the store never holds more than one seed dataset, and a run whose
\* getStats found a job present does not enter the seeding branch.
C21_SeedConsumedOnce ==
    /\ Cardinality(db.jobs) <= MaxSeedJobs
    /\ Cardinality(db.candidates) <= 1
    /\ Cardinality(db.assessments) <= 1
    /\ Cardinality(db.jobApplications) <= 1
    /\ \A t \in Tasks : task[t].stats > 0 => ~Seeding(t)

(***************************************************************************)
(* updateJob and the slug the job already holds, one call at a time.       *)
(***************************************************************************)
MaxSlugJobId == 2

SlugCreateJob ==
    \E title \in JobTitles :
        /\ AllIdle
        /\ keygen.jobs <= MaxSlugJobId
        /\ createJob(1, 0, title, <<>>, JobDefaults)

\* patch.slug as the caller writes it: a slug, or text that is not yet one
PatchSlugs == JobSlugs \cup {<<"A">>}

SlugUpdateJob ==
    \E id \in 1..MaxSlugJobId, title \in JobTitles \cup {<<>>},
       slug \in PatchSlugs \cup {<<>>} :
        /\ AllIdle
        /\ updateJob(1, id, title, slug)

NextUpdateSlug == \/ SlugCreateJob
                  \/ SlugUpdateJob
                  \/ StepCreateJobProbe
                  \/ StepCreateJobPut
                  \/ StepUpdateJobProbe
                  \/ StepUpdateJobUpdate
                  \/ StepUpdateJobGet
                  \/ StepReturn

SpecUpdateSlug == Init /\ [][NextUpdateSlug]_vars

UpdateJobDone(t) == task[t].op = "updateJob" /\ task[t].pc = "done"

\* C22 as stated: a completed updateJob(id, patch) leaves the job's slug
\* as it was when patch.title or patch.slug normalizes (generateSlug) to
\* the slug the job already holds, and when the patch has neither.
C22_UpdateJobKeepsNormalizedSlug ==
    \A t \in Tasks :
        UpdateJobDone(t) =>
            \A j \in Get(pre[t].jobs, task[t].id) :
                LET titleHit == /\ task[t].title # <<>>
                                /\ generateSlug(task[t].title) = j.slug
                    slugHit == /\ task[t].baseSlug # <<>>
                               /\ generateSlug(task[t].baseSlug) = j.slug
                IN  (titleHit \/ slugHit \/ ~task[t].hasSlug) =>
                        \E k \in Get(db.jobs, j.id) : k.slug = j.slug

\* C22 (amended): a completed updateJob(id, patch) leaves the job's slug as it was
\* when the patch has neither title nor slug, and when the slug of the
\* patch (patch.slug, else generateSlug(patch.title)) is the slug the job
\* already holds: the job's own row adds no suffix.
C22_UpdateJobKeepsOwnSlug ==
    \A t \in Tasks :
        UpdateJobDone(t) =>
            \A j \in Get(pre[t].jobs, task[t].id) :
                (~task[t].hasSlug \/ task[t].baseSlug = j.slug) =>
                    \E k \in Get(db.jobs, j.id) : k.slug = j.slug

C22_Witness ==
    \E t \in Tasks :
        /\ UpdateJobDone(t)
        /\ task[t].title = <<"A">>
        /\ task[t].baseSlug = <<"a">>
        /\ Cardinality(db.jobs) = 2
        /\ \E j \in Get(pre[t].jobs, task[t].id) : j.slug = <<"a">>
        /\ \E k \in Get(db.jobs, task[t].id) : k.slug = <<"a">>

(***************************************************************************)
(* Timestamps of jobs: payloads and patches that carry createdAt and       *)
(* updatedAt, while time passes.                                           *)
(***************************************************************************)
MaxStampJobId == 2

\* the timestamp a caller may put in a payload or a patch: none, or an
\* instant of its own choosing
CallerTimes == {NoTime, 0}

StampCreateJob ==
    \E id \in 0..MaxStampJobId, createdAt \in CallerTimes,
       updatedAt \in CallerTimes :
        /\ AllIdle
        /\ id = 0 => keygen.jobs <= MaxStampJobId
        /\ createJob(1, id, <<"A">>, <<>>,
                     [JobDefaults EXCEPT !.createdAt = createdAt,
                                         !.updatedAt = updatedAt])

StampUpdateJob ==
    \E id \in 1..MaxStampJobId : AllIdle /\ updateJob(1, id, <<"b">>, <<>>)

StampUpdateJobTimestamps ==
    \E id \in 1..MaxStampJobId, createdAt \in CallerTimes,
       updatedAt \in CallerTimes :
        AllIdle /\ updateJob_timestamps(1, id, createdAt, updatedAt)

NextStamps == \/ StampCreateJob
              \/ StampUpdateJob
              \/ StampUpdateJobTimestamps
              \/ Tick
              \/ StepCreateJobProbe
              \/ StepCreateJobPut
              \/ StepUpdateJobProbe
              \/ StepUpdateJobUpdate
              \/ StepUpdateJobGet
              \/ StepReturn

SpecStamps == Init /\ [][NextStamps]_vars

StampsOrdered == \A j \in db.jobs : j.updatedAt >= j.createdAt

\* a step stamps a new job with the present instant, never changes the
\* createdAt of a stored job, and stamps every job it changes
StampsKept ==
    \A k \in db.jobs' :
        IF k.id \notin Ids(db.jobs)
        THEN k.createdAt = now /\ k.updatedAt = now
        ELSE \A j \in Get(db.jobs, k.id) :
                 /\ k.createdAt = j.createdAt
                 /\ k # j => k.updatedAt = now

\* C23: whatever createdAt/updatedAt a caller puts in a create payload or
\* an update patch, a job's stored createdAt is the time of its creation
\* and never changes, its updatedAt is the time of the latest write, and
\* updatedAt >= createdAt in every reachable state.
C23_TimestampsServiceOwned == []StampsOrdered /\ [][StampsKept]_vars

(***************************************************************************)
(* generateSlug on its own: titles over a small alphabet.                  *)
(***************************************************************************)
MaxTitleLen == 3

TitleChars == {"A", "a", "1", " ", "-", "#"}

RECURSIVE Strings(_)
Strings(n) == IF n = 0 THEN {<<>>}
              ELSE Strings(n - 1) \cup
                   {s \o <<c>> : s \in Strings(n - 1), c \in TitleChars}

InitSlug == /\ db = TalentFlowDB
            /\ keygen = KeygenInit
            /\ \E title \in Strings(MaxTitleLen) :
                   task = [t \in Tasks |->
                              IF t = 1 THEN [IdleTask EXCEPT !.title = title]
                              ELSE IdleTask]
            /\ pre = [t \in Tasks |-> TalentFlowDB]
            /\ hist = HistInit
            /\ now = 0
            /\ ui = PageInit

\* DatabaseService.generateSlug(title): synchronous, no request to the store
CallGenerateSlug ==
    /\ task[1].op = "idle"
    /\ task' = [task EXCEPT ![1].op = "generateSlug", ![1].pc = "done",
                            ![1].slug = generateSlug(task[1].title)]
    /\ UNCHANGED <<db, keygen, pre, hist, now, ui>>

\* the result is fed to generateSlug again
CallGenerateSlugAgain ==
    /\ task[1].op = "generateSlug"
    /\ task[1].pc = "done"
    /\ task' = [task EXCEPT ![1].pc = "again",
                            ![1].baseSlug = task[1].slug,
                            ![1].slug = generateSlug(task[1].slug)]
    /\ UNCHANGED <<db, keygen, pre, hist, now, ui>>

NextSlug == CallGenerateSlug \/ CallGenerateSlugAgain

SpecSlug == InitSlug /\ [][NextSlug]_vars

SlugShape(s) ==
    /\ \A i \in 1..Len(s) : IsSlugChar(s[i])
    /\ \A i \in 1..(Len(s) - 1) : ~(s[i] = "-" /\ s[i + 1] = "-")
    /\ s # <<>> => (s[1] # "-" /\ s[Len(s)] # "-")

\* C24: generateSlug(title) has only the characters a-z, 0-9 and '-', no
\* two hyphens in a row and no hyphen at either end, and applying
\* generateSlug to its own result gives the same result.
C24_SlugShape ==
    /\ task[1].op = "generateSlug" => SlugShape(task[1].slug)
    /\ task[1].pc = "again" => task[1].slug = task[1].baseSlug

(***************************************************************************)
(* The candidates board (CandidatesPage): the displayed candidates are     *)
(* React state, loaded from the store and changed by drags.                *)
(***************************************************************************)
MaxBoardCandId == 2
MaxDrags == 2
MaxDragCandId == 1

\* setCandidates(prev => prev.map(c => c.id === candidateId ? {...c, stage} : c))
SetStage(candidates, candidateId, stage) ==
    {IF c.id = candidateId THEN [c EXCEPT !.stage = stage] ELSE c :
        c \in candidates}

loadCandidates(t) ==
    /\ Idle(t)
    /\ task' = [task EXCEPT ![t] =
                   [IdleTask EXCEPT !.op = "loadCandidates", !.pc = "read"]]
    /\ UNCHANGED <<db, keygen, pre, hist, now, ui>>

\* const candidatesData = await DatabaseService.getCandidates(filters)
loadCandidates_getCandidates(t) ==
    /\ task[t].op = "loadCandidates"
    /\ task[t].pc = "read"
    /\ task' = [task EXCEPT ![t].pc = "set", ![t].found = db.candidates]
    /\ UNCHANGED <<db, keygen, pre, hist, now, ui>>

\* setCandidates(candidatesData)
loadCandidates_setCandidates(t) ==
    /\ task[t].op = "loadCandidates"
    /\ task[t].pc = "set"
    /\ ui' = [ui EXCEPT !.candidates = task[t].found]
    /\ task' = [task EXCEPT ![t] = IdleTask]
    /\ UNCHANGED <<db, keygen, pre, hist, now>>

\* handleDragEnd up to its await: the card's candidate as displayed, the
\* optimistic update, and the call of updateCandidate(candidateId, {stage})
handleDragEnd(t, candidateId, newStage) ==
    \E candidate \in Get(ui.candidates, candidateId) :
        /\ candidate.stage # newStage
        /\ Idle(t)
        /\ task' = [task EXCEPT ![t] =
                       [IdleTask EXCEPT !.op = "updateCandidate", !.pc = "get",
                           !.id = candidateId, !.stage = newStage,
                           !.caller = "handleDragEnd",
                           !.before = candidate.stage]]
        /\ ui' = [ui EXCEPT !.candidates = SetStage(@, candidateId, newStage)]
        /\ hist' = [hist EXCEPT !.drags = @ + 1]
        /\ UNCHANGED <<db, keygen, pre, now>>

\* slip: the rollback takes the stage from the store's last read
Rollback_toStored(t) == task[t].old

\* catch: { ...c, stage: candidate.stage }
Rollback(t) == task[t].before

\* the awaited updateCandidate settles: toast, or rollback and toast
handleDragEnd_settle(t) ==
    /\ task[t].caller = "handleDragEnd"
    /\ Finished(t)
    /\ ui' = IF task[t].pc = "failed"
             THEN [ui EXCEPT !.candidates = SetStage(@, task[t].id, Rollback(t))]
             ELSE ui
    /\ task' = [task EXCEPT ![t] = IdleTask]
    /\ UNCHANGED <<db, keygen, pre, hist, now>>

\* the candidates exist before the board shows any
BoardCreateCandidate ==
    /\ AllIdle
    /\ ui.candidates = {}
    /\ keygen.candidates <= MaxBoardCandId
    /\ createCandidate(1, 0, NoStage, 0)

BoardReturn == \E t \in Tasks : task[t].op = "createCandidate" /\ Return(t)

\* useEffect(() => { loadCandidates() }, [loadCandidates]): the page loads
\* on mount, with the filters unchanged afterwards; handleDragEnd does not
\* reload
BoardLoadCandidates == AllIdle /\ ui.candidates = {} /\ loadCandidates(1)

\* a new call takes the first free task
FirstIdle(t) == Idle(t) /\ \A u \in Tasks : Idle(u) => t <= u

BoardStages == {"screen", "tech"}

BoardDrag ==
    \E t \in Tasks, candidateId \in 1..MaxDragCandId, newStage \in BoardStages :
        /\ FirstIdle(t)
        /\ hist.drags < MaxDrags
        /\ handleDragEnd(t, candidateId, newStage)

StepLoadCandidatesRead == \E t \in Tasks : loadCandidates_getCandidates(t)

StepLoadCandidatesSet == \E t \in Tasks : loadCandidates_setCandidates(t)

StepDragSettle == \E t \in Tasks : handleDragEnd_settle(t)

StepDragStorageError ==
    \E t \in Tasks : task[t].caller = "handleDragEnd" /\ StorageError(t)

NextBoard == \/ BoardCreateCandidate
             \/ BoardReturn
             \/ BoardLoadCandidates
             \/ BoardDrag
             \/ StepCreateCandidatePut
             \/ StepCreateCandidateEvent
             \/ StepLoadCandidatesRead
             \/ StepLoadCandidatesSet
             \/ StepUpdateCandidateGet
             \/ StepUpdateCandidateUpdate
             \/ StepUpdateCandidateEvent
             \/ StepUpdateCandidateReget
             \/ StepDragStorageError
             \/ StepDragSettle

SpecBoard == Init /\ [][NextBoard]_vars

DragFailed(t) == task[t].caller = "handleDragEnd" /\ task[t].pc = "failed"

\* the step in which the handler of drag t takes the rejection
TakesRejection(t) == DragFailed(t) /\ task'[t] = IdleTask

\* C25: when the updateCandidate of a drag rejects, the handler leaves the
\* dragged candidate displayed in the stage it was displayed in before
\* that drag and every other displayed candidate as it was, also when
\* another drag of the same card is in flight.
C25_RollbackOnFailure ==
    [][\A t \in Tasks :
          TakesRejection(t) =>
              /\ \A c \in ui.candidates : c.id # task[t].id => c \in ui'.candidates
              /\ \A c \in ui'.candidates :
                     IF c.id = task[t].id THEN c.stage = task[t].before
                     ELSE c \in ui.candidates]_vars

\* a rollback taken while a second drag of the same card is in flight
C25_Witness ==
    \E t, u \in Tasks :
        /\ t # u
        /\ task[u].caller = "handleDragEnd"
        /\ task[u].id = task[t].id
        /\ ~Idle(t)
        /\ task[t].caller = "handleDragEnd"
        /\ task[t].pc = "failed"
        /\ task[t].before = "applied"
        /\ task[u].before = task[t].stage
        /\ Cardinality(ui.candidates) = 2

(***************************************************************************)
(* Dependents after deleteJob                                              *)
(***************************************************************************)
\* the candidates the cascade of deleteJob removed
Cascaded(t) == {c.id : c \in {x \in pre[t].candidates : x.jobId = task[t].id}}

\* C26: after deleteJob(id) completes no TimelineEvent, Note,
\* AssessmentResponse or JobApplication remains whose candidateId is a
\* candidate removed by the cascade, and no JobApplication with jobId = id.
C26_DeleteJobNoDangling ==
    \A t \in Tasks :
        DeleteJobDone(t) =>
            /\ \A e \in db.timelineEvents : e.candidateId \notin Cascaded(t)
            /\ \A n \in db.notes : n.candidateId \notin Cascaded(t)
            /\ \A r \in db.assessmentResponses : r.candidateId \notin Cascaded(t)
            /\ \A a \in db.jobApplications :
                   a.candidateId \notin Cascaded(t) /\ a.jobId # task[t].id

(***************************************************************************)
(* Calls that name a candidate the store does not hold.                    *)
(***************************************************************************)
MaxOrphanCandId == 1
MaxOrphanEventId == 3

OrphanRoom == keygen.timelineEvents <= MaxOrphanEventId

OrphanCreateCandidate ==
    /\ AllIdle
    /\ OrphanRoom
    /\ keygen.candidates <= MaxOrphanCandId
    /\ createCandidate(1, 0, NoStage, 0)

OrphanDeleteCandidate ==
    \E id \in 1..MaxOrphanCandId : AllIdle /\ deleteCandidate(1, id)

OrphanUpdateCandidate ==
    \E id \in 1..MaxOrphanCandId :
        AllIdle /\ OrphanRoom /\ updateCandidate(1, id, "screen")

OrphanCreateNote ==
    \E candidateId \in 1..MaxOrphanCandId :
        /\ AllIdle
        /\ OrphanRoom
        /\ keygen.notes <= MaxOrphanCandId
        /\ createNote(1, candidateId)

OrphanCreateJobApplication ==
    \E candidateId \in 1..MaxOrphanCandId :
        /\ AllIdle
        /\ OrphanRoom
        /\ keygen.jobApplications <= MaxOrphanCandId
        /\ candidateId \in Ids(db.candidates)
        /\ createJobApplication(1, candidateId, 1, "applied")

OrphanUpdateJobApplicationStatus ==
    \E id \in 1..MaxOrphanCandId :
        AllIdle /\ OrphanRoom /\ updateJobApplicationStatus(1, id, "screen", <<>>)

NextOrphan == \/ OrphanCreateCandidate
              \/ OrphanDeleteCandidate
              \/ OrphanUpdateCandidate
              \/ OrphanCreateNote
              \/ OrphanCreateJobApplication
              \/ OrphanUpdateJobApplicationStatus
              \/ StepCreateCandidatePut
              \/ StepCreateCandidateEvent
              \/ StepDeleteCandidateCandidates
              \/ StepDeleteCandidateEvents
              \/ StepDeleteCandidateNotes
              \/ StepDeleteCandidateResponses
              \/ StepUpdateCandidateGet
              \/ StepUpdateCandidateUpdate
              \/ StepUpdateCandidateEvent
              \/ StepUpdateCandidateReget
              \/ StepCreateNoteAdd
              \/ StepCreateNoteEvent
              \/ StepCreateApplicationAdd
              \/ StepCreateApplicationEvent
              \/ StepUpdateStatusGet
              \/ StepUpdateApplicationUpdate
              \/ StepUpdateApplicationGet
              \/ StepUpdateStatusEvent
              \/ StepUpdateStatusReget
              \/ StepReturn

SpecOrphan == Init /\ [][NextOrphan]_vars

\* the candidate a settled call is about, as ids of candidates
CandidateOf(t) ==
    CASE task[t].op = "updateCandidate" -> {task[t].id}
      [] task[t].op = "createNote" -> {task[t].candidateId}
      [] task[t].op = "updateJobApplicationStatus" ->
            {a.candidateId : a \in Get(pre[t].jobApplications, task[t].id)}
      [] OTHER -> {}

\* C27: updateCandidate(id, {stage}), createNote and
\* updateJobApplicationStatus add no TimelineEvent when the candidate they
\* are about is not stored, and in every reachable state with no call in
\* flight each TimelineEvent's candidateId is the id of a stored candidate.
C27_NoEventWithoutCandidate ==
    /\ AllIdle => \A e \in db.timelineEvents :
                      e.candidateId \in Ids(db.candidates)
    /\ \A t \in Tasks :
          (Finished(t) /\ \E c \in CandidateOf(t) : c \notin Ids(pre[t].candidates))
              => db.timelineEvents = pre[t].timelineEvents

(***************************************************************************)
(* Reset Database (CandidateDetail): clearAllData, then the seed again.    *)
(***************************************************************************)
MaxResetJobId == 2
MaxResetCandId == 1

\* db.transaction('rw', jobs, candidates, assessments, timelineEvents, notes,
\* assessmentResponses, ...): the tables the transaction clears
Cleared == {"jobs", "candidates", "assessments", "timelineEvents", "notes",
            "assessmentResponses"}

\* the handler up to its first await: await DatabaseService.clearAllData()
resetDatabase(t) ==
    /\ Begin(t, [IdleTask EXCEPT !.op = "clearAllData", !.pc = "transaction",
                    !.caller = "resetDatabase"])
    /\ UNCHANGED <<db, keygen, hist, now, ui>>

\* the transaction commits: table.clear() keeps the key generators
clearAllData_transaction(t) ==
    /\ task[t].op = "clearAllData"
    /\ task[t].pc = "transaction"
    /\ db' = [tb \in Tables |-> IF tb \in Cleared THEN {} ELSE db[tb]]
    /\ task' = [task EXCEPT ![t].pc = "done"]
    /\ UNCHANGED <<keygen, pre, hist, now, ui>>

\* the handler seeds jobs, candidates and assessments, not applications
resetSeed == SubSeq(seedData, 1, Len(seedData) - 1)

\* for (const item of ...) { await DatabaseService.create*(item) }
resetDatabase_create(t) ==
    /\ task[t].caller = "resetDatabase"
    /\ task[t].pc = "done"
    /\ task[t].seed < Len(resetSeed)
    /\ task' = [task EXCEPT ![t] =
                   [resetSeed[task[t].seed + 1] EXCEPT
                       !.caller = "resetDatabase",
                       !.seed = task[t].seed + 1]]
    /\ UNCHANGED <<db, keygen, pre, hist, now, ui>>

\* toast.success after the last item, or the catch block after a rejection
resetDatabase_end(t) ==
    /\ task[t].caller = "resetDatabase"
    /\ \/ task[t].pc = "failed"
       \/ task[t].pc = "done" /\ task[t].seed = Len(resetSeed)
    /\ task' = [task EXCEPT ![t] =
                   [IdleTask EXCEPT !.op = "resetDatabase",
                                    !.pc = task[t].pc,
                                    !.seed = task[t].seed]]
    /\ UNCHANGED <<db, keygen, pre, hist, now, ui>>

ResetCreateCandidate ==
    /\ AllIdle
    /\ keygen.candidates <= MaxResetCandId
    /\ createCandidate(1, 0, NoStage, 0)

ResetCreateJobApplication ==
    /\ AllIdle
    /\ keygen.jobApplications <= MaxResetCandId
    /\ db.candidates # {}
    /\ createJobApplication(1, 1, 1, "applied")

CallResetDatabase ==
    /\ AllIdle
    /\ keygen.jobs <= MaxResetJobId
    /\ resetDatabase(1)

StepClearAllData == \E t \in Tasks : clearAllData_transaction(t)

StepResetCreate == \E t \in Tasks : resetDatabase_create(t)

StepResetEnd == \E t \in Tasks : resetDatabase_end(t)

StepResetStorageError ==
    \E t \in Tasks : task[t].caller = "resetDatabase" /\ StorageError(t)

StepResetReturn == \E t \in Tasks : task[t].caller = NoCaller /\ Return(t)

NextReset == \/ ResetCreateCandidate
             \/ ResetCreateJobApplication
             \/ CallResetDatabase
             \/ StepCreateJobProbe
             \/ StepCreateJobPut
             \/ StepCreateCandidatePut
             \/ StepCreateCandidateEvent
             \/ StepCreateAssessmentAdd
             \/ StepCreateApplicationAdd
             \/ StepCreateApplicationEvent
             \/ StepClearAllData
             \/ StepResetCreate
             \/ StepResetEnd
             \/ StepResetStorageError
             \/ StepResetReturn

SpecReset == Init /\ [][NextReset]_vars

\* C28: once clearAllData has completed, all seven tables are empty, and
\* after the reset and its re-seeding no record of before the reset is
\* left in any table.
C28_ClearAllDataEmptiesStore ==
    \A t \in Tasks :
        /\ (task[t].op = "clearAllData" /\ task[t].pc = "done") =>
               \A tb \in Tables : db[tb] = {}
        /\ (task[t].op = "resetDatabase" /\ task[t].pc = "done") =>
               \A tb \in Tables : db[tb] \cap pre[t][tb] = {}

(***************************************************************************)
(* createJob repeated with the id of the job it created                    *)
(***************************************************************************)
CreateJobDone(t) == task[t].op = "createJob" /\ task[t].pc = "done"

\* job j is what a first createJob with the data of call t left: the id and
\* the title of the call, the slug the call starts from, held by no other job
SameData(t, j) == /\ j.id = task[t].id
                  /\ j.title = task[t].title
                  /\ j.slug = task[t].baseSlug
                  /\ \A k \in pre[t].jobs : k.slug = j.slug => k.id = j.id

\* C29: a second createJob with the same data and caller-supplied id
\* leaves exactly one job with that id, with the slug it had after the
\* first call, and returns a record with the supplied id.
C29_UpsertIdempotent ==
    \A t \in Tasks :
        (CreateJobDone(t) /\ task[t].id # 0) =>
            \A j \in pre[t].jobs :
                SameData(t, j) =>
                    /\ Cardinality(Get(db.jobs, task[t].id)) = 1
                    /\ \A k \in Get(db.jobs, task[t].id) : k.slug = j.slug
                    /\ task[t].newId = task[t].id

(***************************************************************************)
(* The jobs list (JobsPage): the displayed jobs are React state, loaded    *)
(* with getJobs and rearranged by drags.                                   *)
(***************************************************************************)
MaxDragJobId == 3

\* @dnd-kit/sortable arrayMove(array, from, to): the element leaves its
\* place and is put in at the new one; the others close up
arrayMove(arr, from, to) ==
    LET rest == [i \in 1..(Len(arr) - 1) |->
                    IF i < from THEN arr[i] ELSE arr[i + 1]]
    IN  [i \in 1..Len(arr) |->
            IF i < to THEN rest[i]
            ELSE IF i = to THEN arr[from]
            ELSE rest[i - 1]]

loadJobs(t) ==
    /\ Idle(t)
    /\ task' = [task EXCEPT ![t] =
                   [IdleTask EXCEPT !.op = "loadJobs", !.pc = "read"]]
    /\ UNCHANGED <<db, keygen, pre, hist, now, ui>>

\* const result = await DatabaseService.getJobs(filtersWithPagination): the
\* first page holds every job of the list
loadJobs_getJobs(t) ==
    /\ task[t].op = "loadJobs"
    /\ task[t].pc = "read"
    /\ task' = [task EXCEPT ![t].pc = "set",
                            ![t].result = FilteredJobs(db.jobs, NoFilters)]
    /\ UNCHANGED <<db, keygen, pre, hist, now, ui>>

\* setJobs(result.data); the tags of getJobs({}) go to another state
loadJobs_setJobs(t) ==
    /\ task[t].op = "loadJobs"
    /\ task[t].pc = "set"
    /\ ui' = [ui EXCEPT !.jobs = task[t].result]
    /\ task' = [task EXCEPT ![t] = IdleTask]
    /\ UNCHANGED <<db, keygen, pre, hist, now>>

\* handleDragEnd up to its await: the optimistic arrayMove and the call of
\* reorderJobs(jobs[oldIndex].order, jobs[newIndex].order)
JobsPage_handleDragEnd(t, oldIndex, newIndex) ==
    /\ oldIndex # newIndex
    /\ Begin(t, [IdleTask EXCEPT !.op = "reorderJobs", !.pc = "transaction",
                    !.fromOrder = ui.jobs[oldIndex].order,
                    !.toOrder = ui.jobs[newIndex].order,
                    !.caller = "JobsPage.handleDragEnd",
                    !.shown = ui.jobs])
    /\ ui' = [ui EXCEPT !.jobs = arrayMove(ui.jobs, oldIndex, newIndex)]
    /\ UNCHANGED <<db, keygen, hist, now>>

\* the awaited reorderJobs settles: toast, or setJobs(jobs) and toast
JobsPage_handleDragEnd_settle(t) ==
    /\ task[t].caller = "JobsPage.handleDragEnd"
    /\ Finished(t)
    /\ ui' = IF task[t].pc = "failed" THEN [ui EXCEPT !.jobs = task[t].shown]
             ELSE ui
    /\ task' = [task EXCEPT ![t] =
                   [IdleTask EXCEPT !.op = "JobsPage.handleDragEnd",
                                    !.pc = task[t].pc,
                                    !.shown = task[t].shown]]
    /\ UNCHANGED <<db, keygen, pre, hist, now>>

ListDragCreateJob ==
    \E order \in 1..MaxDragJobId :
        /\ AllIdle
        /\ ui.jobs = <<>>
        /\ keygen.jobs <= MaxDragJobId
        /\ createJob(1, 0, <<"A">>, <<>>, [JobDefaults EXCEPT !.order = order])

ListLoadJobs == AllIdle /\ loadJobs(1)

ListDrag ==
    \E oldIndex \in 1..Len(ui.jobs), newIndex \in 1..Len(ui.jobs) :
        AllIdle /\ JobsPage_handleDragEnd(1, oldIndex, newIndex)

StepLoadJobsRead == \E t \in Tasks : loadJobs_getJobs(t)

StepLoadJobsSet == \E t \in Tasks : loadJobs_setJobs(t)

StepListDragSettle == \E t \in Tasks : JobsPage_handleDragEnd_settle(t)

StepListDragStorageError ==
    \E t \in Tasks : task[t].caller = "JobsPage.handleDragEnd" /\ StorageError(t)

StepListReturn == \E t \in Tasks : task[t].caller = NoCaller /\ Return(t)

NextJobList == \/ ListDragCreateJob
               \/ ListLoadJobs
               \/ ListDrag
               \/ StepCreateJobProbe
               \/ StepCreateJobPut
               \/ StepLoadJobsRead
               \/ StepLoadJobsSet
               \/ StepReorderJobsTransaction
               \/ StepListDragStorageError
               \/ StepListDragSettle
               \/ StepListReturn

SpecJobList == Init /\ [][NextJobList]_vars

IdSeq(arr) == [i \in 1..Len(arr) |-> arr[i].id]

DistinctOrders(arr) ==
    \A i, j \in 1..Len(arr) : arr[i].order = arr[j].order => i = j

DragSettled(t) == task[t].op = "JobsPage.handleDragEnd"

\* C30: for a displayed list with pairwise distinct order values, after a
\* drag from any index to any other whose reorderJobs succeeded the jobs
\* are shown in the order in which getJobs returns them; after a failed
\* reorderJobs the displayed list is the list of before the drag.
C30_DisplayAgreesWithStore ==
    \A t \in Tasks :
        DragSettled(t) =>
            IF task[t].pc = "failed" THEN ui.jobs = task[t].shown
            ELSE DistinctOrders(task[t].shown) =>
                     IdSeq(ui.jobs) = IdSeq(FilteredJobs(db.jobs, NoFilters))

====
